---- MODULE Spec2Model ----
(***************************************************************************)
(* Model of the multi-modal research agent: the Variant A workflow graph   *)
(* (src/src/agent/graph.py), its state schemas (src/src/agent/state.py)    *)
(* and the helpers its nodes call (src/src/agent/utils.py).                *)
(*                                                                         *)
(* A run is a state mapping (a Python dict: a field that is absent is not  *)
(* in the mapping's DOMAIN), the set of nodes scheduled next, and the      *)
(* history of what ran.  One action per graph node: the action invokes the *)
(* node function on the state, merges the returned partial update into the *)
(* declared channels of the state and resolves the node's outgoing edges.  *)
(***************************************************************************)
EXTENDS Integers, Sequences, FiniteSets, TLC

VARIABLES
    input,        \* the mapping the caller passed to the run
    env,          \* process environment: which settings are configured
    state,        \* the run's state mapping (field name -> value)
    active,       \* nodes scheduled to run next
    status,       \* "running", "done" or "aborted"
    err,          \* the exception that aborted the run, "none" otherwise
    trace,        \* nodes invoked so far, in order
    route,        \* labels the routers returned so far, in order
    prev_state,   \* the state before the last invoked node
    last_update,  \* the partial update the last invoked node returned
    calls,        \* collaborator calls made so far: node, kind, outcome
    research_app, \* main.py: whether the compiled graph was initialised
    response,     \* main.py: what run_research answered, if it has
    background_tasks, \* main.py: the e-mail tasks run_research scheduled
    runs,         \* concurrent runs of the compiled graph: run id -> run
    files,        \* the working directory: file name -> content
    blobs,        \* the storage bucket: blob name -> content
    mock_response, \* the response object handed to the response parser
    parsed        \* what the response parser returned for it

http_vars == <<research_app, response, background_tasks>>

conc_vars == <<runs, files, blobs>>

parse_vars == <<mock_response, parsed>>

vars ==
    <<input, env, state, active, status, err, trace, route, prev_state, last_update,
      calls, http_vars, conc_vars, parse_vars>>

----------------------------------------------------------------------------
(* Bounds of the model.                                                    *)

\* longest generated text, in tokens
MaxTextLen == 1
\* longest generated company research text, in tokens
MaxCompanyTextLen == 2
\* most entries in a generated list (leads, contacts)
MaxListLen == 1

----------------------------------------------------------------------------
(* Python values.  A value is tagged with its type so that None, "", []    *)
(* and False stay distinct: the code tests truthiness, not equality.       *)

None == [k |-> "none"]
Str(s) == [k |-> "str", s |-> s]
Bool(b) == [k |-> "bool", b |-> b]
List(l) == [k |-> "list", l |-> l]

\* Python's truth value of v ("if v:", "not v", "a or b")
Truthy(v) ==
    CASE v.k = "none" -> FALSE
      [] v.k = "str"  -> v.s # <<>>
      [] v.k = "bool" -> v.b
      [] v.k = "list" -> v.l # <<>>
      [] OTHER        -> TRUE

\* dict.get(key): the value, or None when the key is absent
Get(st, key) == IF key \in DOMAIN st THEN st[key] ELSE None

\* dict.get(key, default)
GetOr(st, key, default) == IF key \in DOMAIN st THEN st[key] ELSE default

\* "a or b"
PyOr(a, b) == IF Truthy(a) THEN a ELSE b

\* sequences over S of length at most n
SeqsUpTo(S, n) == UNION {[1..m -> S] : m \in 0..n}

----------------------------------------------------------------------------
(* State schemas (src/src/agent/state.py).                                 *)

ResearchStateInput ==
    {"topic", "research_approach", "company_name", "title_areas",
     "video_url", "create_podcast"}

ResearchStateOutput ==
    {"report", "podcast_script", "podcast_url", "identified_leads"}

ResearchState ==
    ResearchStateInput \cup
    {"search_text", "search_sources_text", "video_text",
     "company_specific_topic_research_text", "company_info_text",
     "identified_leads_data", "synthesis_text"} \cup
    ResearchStateOutput

TOPIC_ONLY == Str(<<"Topic Only">>)
TOPIC_COMPANY_LEADS == Str(<<"Topic Company Leads">>)

----------------------------------------------------------------------------
(* Routers (conditional edges).                                            *)

END == "__end__"
START == "__start__"

\* mutant: tests that the key is there, not that its value is non-empty
should_analyze_video_KeyPresent(st) ==
    IF "video_url" \in DOMAIN st THEN "analyze_video" ELSE "create_report"

should_analyze_video(st) ==
    IF Truthy(Get(st, "video_url")) THEN "analyze_video" ELSE "create_report"

\* mutant: an absent flag defaults to true
should_create_podcast_DefaultTrue(st) ==
    IF Truthy(GetOr(st, "create_podcast", Bool(TRUE))) THEN "create_podcast" ELSE END

should_create_podcast(st) ==
    IF Truthy(GetOr(st, "create_podcast", Bool(FALSE))) THEN "create_podcast" ELSE END

\* mutant: title_areas is not validated
should_perform_company_research_NoTitles(st) ==
    IF Get(st, "research_approach") = TOPIC_COMPANY_LEADS
    THEN IF ~Truthy(Get(st, "company_name"))
         THEN "topic_only_path"
         ELSE "company_leads_path"
    ELSE "topic_only_path"

should_perform_company_research(st) ==
    IF Get(st, "research_approach") = TOPIC_COMPANY_LEADS
    THEN IF ~Truthy(Get(st, "company_name")) \/ ~Truthy(Get(st, "title_areas"))
         THEN "topic_only_path"
         ELSE "company_leads_path"
    ELSE "topic_only_path"

Router(name, st) ==
    CASE name = "should_analyze_video" -> should_analyze_video(st)
      [] name = "should_create_podcast" -> should_create_podcast(st)
      [] name = "should_perform_company_research" -> should_perform_company_research(st)

----------------------------------------------------------------------------
(* Topology (create_research_graph).                                       *)

Nodes ==
    {"search_research", "company_topic_research", "identify_leads",
     "search_linkedin_via_cse", "analyze_video", "create_report",
     "create_podcast"}

\* mutant: the company branch skips identify_leads
Edges_SkipLeads ==
    {<<"company_topic_research", "search_linkedin_via_cse">>,
     <<"analyze_video", "create_report">>,
     <<"create_podcast", END>>}

\* mutant: create_podcast leads back to the report instead of the terminal
Edges_Cycle ==
    {<<"company_topic_research", "identify_leads">>,
     <<"identify_leads", "search_linkedin_via_cse">>,
     <<"analyze_video", "create_report">>,
     <<"create_podcast", "create_report">>}

\* mutant: an unconditional edge beside the video gate of search_research
Edges_FanOut ==
    {<<"company_topic_research", "identify_leads">>,
     <<"identify_leads", "search_linkedin_via_cse">>,
     <<"search_research", "company_topic_research">>,
     <<"analyze_video", "create_report">>,
     <<"create_podcast", END>>}

\* graph.add_edge(src, dst)
Edges ==
    {<<"company_topic_research", "identify_leads">>,
     <<"identify_leads", "search_linkedin_via_cse">>,
     <<"analyze_video", "create_report">>,
     <<"create_podcast", END>>}

VideoGateMap ==
    ("analyze_video" :> "analyze_video") @@ ("create_report" :> "create_report")

\* mutant: the podcast gate's label map has no entry for the terminal label
CondEdges_NoEndLabel ==
    {[src |-> START, router |-> "should_perform_company_research",
      map |-> ("topic_only_path" :> "search_research") @@
              ("company_leads_path" :> "company_topic_research")],
     [src |-> "search_research", router |-> "should_analyze_video",
      map |-> VideoGateMap],
     [src |-> "search_linkedin_via_cse", router |-> "should_analyze_video",
      map |-> VideoGateMap],
     [src |-> "create_report", router |-> "should_create_podcast",
      map |-> ("create_podcast" :> "create_podcast")]}

\* graph.add_conditional_edges(src, router, label map)
CondEdges ==
    {[src |-> START, router |-> "should_perform_company_research",
      map |-> ("topic_only_path" :> "search_research") @@
              ("company_leads_path" :> "company_topic_research")],
     [src |-> "search_research", router |-> "should_analyze_video",
      map |-> VideoGateMap],
     [src |-> "search_linkedin_via_cse", router |-> "should_analyze_video",
      map |-> VideoGateMap],
     [src |-> "create_report", router |-> "should_create_podcast",
      map |-> ("create_podcast" :> "create_podcast") @@ (END :> END)]}

----------------------------------------------------------------------------
(* Collaborator results.  A generative call either raises, returns a       *)
(* response without candidates, or returns a response carrying a text.     *)

Texts == SeqsUpTo({"a"}, MaxTextLen)

\* tokens of the company research text: a word, whitespace, the section
\* marker as the prompt writes it, and the marker in another letter case
CompanyTokens == {"a", "sp", "M", "m"}
CompanyTexts == SeqsUpTo(CompanyTokens, MaxCompanyTextLen)

LeadLists == SeqsUpTo({"lead"}, MaxListLen)
ContactLists == SeqsUpTo({"contact"}, MaxListLen)

Failures == {[k |-> "error"], [k |-> "nocand"]}

SearchResponses ==
    Failures \cup {[k |-> "text", text |-> t, sources |-> s] : t \in Texts, s \in Texts}
TextResponses == Failures \cup {[k |-> "text", text |-> t] : t \in Texts}
CompanyResponses == Failures \cup {[k |-> "text", text |-> t] : t \in CompanyTexts}
JsonValues ==
    {[k |-> "malformed"], [k |-> "object"]} \cup {[k |-> "list", l |-> l] : l \in LeadLists}
LeadResponses == Failures \cup {[k |-> "text", json |-> j] : j \in JsonValues}
AudioResponses == Failures \cup {[k |-> "audio"]}

\* the custom search request: it fails, or it answers with result items
CseResponses == {[k |-> "error"]} \cup {[k |-> "items", l |-> c] : c \in ContactLists}

\* what a node function does: raise, or return a partial update
Raise(e) == [err |-> e, update |-> <<>>]
Return(u) == [err |-> "none", update |-> u]

\* the exception a failed generative call surfaces as in the caller:
\* the call itself raising, or candidates[0] of an empty candidate list
CallError(resp) == IF resp.k = "error" THEN "CollaboratorError" ELSE "IndexError"

----------------------------------------------------------------------------
(* Text helpers.                                                           *)

\* str.strip(): drop the whitespace tokens at both ends
RECURSIVE LStrip(_)
LStrip(t) == IF t # <<>> /\ Head(t) = "sp" THEN LStrip(Tail(t)) ELSE t

RECURSIVE RStrip(_)
RStrip(t) ==
    IF t # <<>> /\ t[Len(t)] = "sp" THEN RStrip(SubSeq(t, 1, Len(t) - 1)) ELSE t

Strip(t) == RStrip(LStrip(t))

\* full_research_text.lower().find(company_info_marker.lower()):
\* the position of the first marker in either letter case, 0 when there is none
FindMarker(t) ==
    IF \E i \in 1..Len(t) : t[i] \in {"M", "m"}
    THEN CHOOSE i \in 1..Len(t) :
            /\ t[i] \in {"M", "m"}
            /\ \A j \in 1..(i - 1) : t[j] \notin {"M", "m"}
    ELSE 0

\* "".join(c for c in s if c.isalnum() or c in (' ', '-', '_')).rstrip().replace(' ', '_')
SafeName(t) ==
    LET kept == RStrip(SelectSeq(t, LAMBDA c : c # "/"))
    IN  [i \in 1..Len(kept) |-> IF kept[i] = "sp" THEN "_" ELSE kept[i]]

----------------------------------------------------------------------------
(* Node functions (src/src/agent/graph.py).  Each takes the state and the  *)
(* results of the collaborator calls it makes.                             *)

NO_VIDEO == Str(<<"No video provided for analysis.">>)
COMPANY_REQUIRED == Str(<<"Error: Company name required.">>)

\* mutant: the node also writes the topic
search_research_node_WritesTopic(st, resp) ==
    IF "topic" \notin DOMAIN st THEN Raise("KeyError")
    ELSE IF resp.k # "text" THEN Raise(CallError(resp))
    ELSE Return([search_text |-> Str(resp.text),
                 search_sources_text |-> Str(resp.sources),
                 topic |-> Str(resp.text)])

search_research_node(st, resp) ==
    IF "topic" \notin DOMAIN st THEN Raise("KeyError")
    ELSE IF resp.k # "text" THEN Raise(CallError(resp))
    ELSE Return([search_text |-> Str(resp.text),
                 search_sources_text |-> Str(resp.sources)])

company_topic_research_node(st, resp) ==
    IF "topic" \notin DOMAIN st THEN Raise("KeyError")
    ELSE IF ~Truthy(Get(st, "company_name"))
    THEN Return([company_specific_topic_research_text |-> COMPANY_REQUIRED,
                 company_info_text |-> COMPANY_REQUIRED])
    ELSE IF resp.k = "error" THEN Raise("CollaboratorError")
    ELSE LET full_research_text == IF resp.k = "text" THEN resp.text ELSE <<>>
             marker_idx == FindMarker(full_research_text)
         IN  IF marker_idx # 0
             THEN Return([company_specific_topic_research_text |->
                              Str(Strip(SubSeq(full_research_text, 1, marker_idx - 1))),
                          company_info_text |->
                              Str(Strip(SubSeq(full_research_text, marker_idx + 1,
                                               Len(full_research_text))))])
             ELSE Return([company_specific_topic_research_text |-> Str(full_research_text),
                          company_info_text |-> Str(<<>>)])

\* the list the response's JSON text parses to, [] when it is not a list
parse_leads_from_gemini_response(resp) ==
    IF resp.k = "text" /\ resp.json.k = "list" THEN resp.json.l ELSE <<>>

\* mutant: the parsed leads reach the intermediate field only
identify_leads_node_NoOutput(st, resp) ==
    IF ~Truthy(Get(st, "company_name")) \/ ~Truthy(Get(st, "title_areas"))
    THEN Return([identified_leads_data |-> List(<<>>)])
    ELSE IF resp.k = "error" THEN Raise("CollaboratorError")
    ELSE Return([identified_leads_data |-> List(parse_leads_from_gemini_response(resp))])

identify_leads_node(st, resp) ==
    IF ~Truthy(Get(st, "company_name")) \/ ~Truthy(Get(st, "title_areas"))
    THEN Return([identified_leads_data |-> List(<<>>), identified_leads |-> List(<<>>)])
    ELSE IF resp.k = "error" THEN Raise("CollaboratorError")
    ELSE LET identified_leads == parse_leads_from_gemini_response(resp)
         IN  Return([identified_leads_data |-> List(identified_leads),
                     identified_leads |-> List(identified_leads)])

analyze_video_node(st, resp) ==
    IF "topic" \notin DOMAIN st THEN Raise("KeyError")
    ELSE IF ~Truthy(Get(st, "video_url")) THEN Return([video_text |-> NO_VIDEO])
    ELSE IF resp.k # "text" THEN Raise(CallError(resp))
    ELSE Return([video_text |-> Str(resp.text)])

\* the contacts found; every exception of the request is caught and what
\* was found before it, nothing, is returned
fetch_linkedin_contacts_via_cse(resp) == IF resp.k = "items" THEN resp.l ELSE <<>>

\* cse_configured: GOOGLE_API_KEY_FOR_CSE and GOOGLE_CSE_ID are both set;
\* contacts: what fetch_linkedin_contacts_via_cse returns (it never raises)
search_linkedin_via_cse_node(st, cse_configured, contacts) ==
    IF ~Truthy(Get(st, "company_name")) \/ ~Truthy(Get(st, "title_areas"))
    THEN Return([linkedin_cse_contacts |-> List(<<>>)])
    ELSE IF ~cse_configured THEN Return([linkedin_cse_contacts |-> List(<<>>)])
    ELSE Return([linkedin_cse_contacts |-> List(contacts)])

----------------------------------------------------------------------------
(* Report and podcast helpers (src/src/agent/utils.py).  They return a     *)
(* pair of values or raise.                                                *)

Raised(e) == [err |-> e, value |-> <<>>]
Returned(v) == [err |-> "none", value |-> v]

\* blob.generate_signed_url(...) of the object stored under blob_name
SignedUrl(blob_name) == [k |-> "signed_url", blob |-> blob_name]
IsSignedUrlValue(v) == v.k = "signed_url"

\* resp: the synthesis call; gcs_bucket_name: whether GCS_BUCKET_NAME is set;
\* upload_ok: whether the upload and the URL signing succeed
create_research_report(topic, research_approach, search_text, video_text, search_sources_text, video_url, company_name, company_specific_topic_research_text, company_info_text, identified_leads_data, linkedin_cse_contacts, resp, gcs_bucket_name, upload_ok) ==
    IF resp.k # "text" THEN Raised(CallError(resp))
    ELSE
    LET synthesis_text == Str(resp.text)
        prompt_title ==
            IF research_approach = TOPIC_COMPANY_LEADS /\ Truthy(company_name)
            THEN <<topic, company_name>> ELSE <<topic>>
        report_content ==
            [k |-> "report_content",
             title |-> prompt_title,
             synthesis |-> synthesis_text,
             opportunities |->
                 IF research_approach = TOPIC_COMPANY_LEADS /\ Truthy(identified_leads_data)
                 THEN identified_leads_data ELSE None,
             video_source |-> IF Truthy(video_url) THEN video_url ELSE None,
             sources |-> IF Truthy(search_sources_text) THEN search_sources_text ELSE None,
             cse_contacts |->
                 IF Truthy(linkedin_cse_contacts) THEN linkedin_cse_contacts ELSE None]
        blob_name == <<"reports", "research_report">> \o SafeName(topic.s)
    IN  IF ~gcs_bucket_name THEN Returned(<<report_content, synthesis_text>>)
        ELSE IF upload_ok THEN Returned(<<SignedUrl(blob_name), synthesis_text>>)
        ELSE Returned(<<report_content, synthesis_text>>)

\* script_resp, tts_resp: the script and the text-to-speech calls
create_podcast_discussion(topic, search_text, video_text, search_sources_text, video_url, filename, script_resp, tts_resp, gcs_bucket_name, upload_ok) ==
    IF script_resp.k # "text" THEN Raised(CallError(script_resp))
    ELSE IF tts_resp.k # "audio" THEN Raised(CallError(tts_resp))
    ELSE
    LET podcast_script == Str(script_resp.text)
        blob_name == <<"podcasts">> \o filename
    IN  IF ~gcs_bucket_name THEN Returned(<<podcast_script, None>>)
        ELSE IF upload_ok THEN Returned(<<podcast_script, SignedUrl(blob_name)>>)
        ELSE Returned(<<podcast_script, None>>)

create_report_node(st, resp, gcs_bucket_name, upload_ok) ==
    IF "topic" \notin DOMAIN st \/ "research_approach" \notin DOMAIN st
    THEN Raise("KeyError")
    ELSE
    LET r == create_research_report(
                 st["topic"], st["research_approach"],
                 Get(st, "search_text"), Get(st, "video_text"),
                 Get(st, "search_sources_text"), Get(st, "video_url"),
                 Get(st, "company_name"),
                 Get(st, "company_specific_topic_research_text"),
                 Get(st, "company_info_text"),
                 Get(st, "identified_leads_data"),
                 None,
                 resp, gcs_bucket_name, upload_ok)
    IN  IF r.err # "none" THEN Raise(r.err)
        ELSE Return([report |-> r.value[1], synthesis_text |-> r.value[2]])

\* the research text create_podcast_node hands to the podcast script prompt
PrimaryResearchText(st) ==
    LET by_approach ==
            IF st["research_approach"] = TOPIC_COMPANY_LEADS
            THEN PyOr(GetOr(st, "company_specific_topic_research_text", Str(<<>>)),
                      GetOr(st, "company_info_text", Str(<<>>)))
            ELSE GetOr(st, "search_text", Str(<<>>))
    IN  IF ~Truthy(by_approach) /\ Truthy(Get(st, "synthesis_text"))
        THEN st["synthesis_text"]
        ELSE by_approach

\* research_podcast_{safe_topic}{company_name_safe_segment}.wav
PodcastFilename(st) ==
    LET safe_topic == SafeName(st["topic"].s)
        company_name_safe ==
            IF st["research_approach"] = TOPIC_COMPANY_LEADS /\ Truthy(Get(st, "company_name"))
            THEN SafeName(st["company_name"].s) ELSE <<>>
    IN  <<"research_podcast">> \o safe_topic \o company_name_safe

create_podcast_node(st, script_resp, tts_resp, gcs_bucket_name, upload_ok) ==
    IF "topic" \notin DOMAIN st \/ "research_approach" \notin DOMAIN st
    THEN Raise("KeyError")
    ELSE
    LET r == create_podcast_discussion(
                 st["topic"], PrimaryResearchText(st),
                 GetOr(st, "video_text", Str(<<>>)),
                 GetOr(st, "search_sources_text", Str(<<>>)),
                 GetOr(st, "video_url", Str(<<>>)),
                 PodcastFilename(st),
                 script_resp, tts_resp, gcs_bucket_name, upload_ok)
    IN  IF r.err # "none" THEN Raise(r.err)
        ELSE Return([podcast_script |-> r.value[1], podcast_url |-> r.value[2]])

----------------------------------------------------------------------------
(* The collaborator calls each node makes, in order, with their outcome:   *)
(* ok is FALSE when the call itself raised.                                *)

Call(node, kind, ok) == [node |-> node, kind |-> kind, ok |-> ok]

search_research_calls(st, resp) ==
    IF "topic" \notin DOMAIN st THEN <<>>
    ELSE <<Call("search_research", "generate", resp.k # "error")>>

company_topic_research_calls(st, resp) ==
    IF "topic" \notin DOMAIN st \/ ~Truthy(Get(st, "company_name")) THEN <<>>
    ELSE <<Call("company_topic_research", "generate", resp.k # "error")>>

identify_leads_calls(st, resp) ==
    IF ~Truthy(Get(st, "company_name")) \/ ~Truthy(Get(st, "title_areas")) THEN <<>>
    ELSE <<Call("identify_leads", "generate", resp.k # "error")>>

search_linkedin_via_cse_calls(st, cse_configured, resp) ==
    IF ~Truthy(Get(st, "company_name")) \/ ~Truthy(Get(st, "title_areas")) THEN <<>>
    ELSE IF ~cse_configured THEN <<>>
    ELSE <<Call("search_linkedin_via_cse", "search", resp.k # "error")>>

analyze_video_calls(st, resp) ==
    IF "topic" \notin DOMAIN st \/ ~Truthy(Get(st, "video_url")) THEN <<>>
    ELSE <<Call("analyze_video", "generate", resp.k # "error")>>

create_report_calls(st, resp, gcs_bucket_name, upload_ok) ==
    IF "topic" \notin DOMAIN st \/ "research_approach" \notin DOMAIN st THEN <<>>
    ELSE <<Call("create_report", "generate", resp.k # "error")>> \o
         (IF resp.k = "text" /\ gcs_bucket_name
          THEN <<Call("create_report", "upload", upload_ok)>> ELSE <<>>)

create_podcast_calls(st, script_resp, tts_resp, gcs_bucket_name, upload_ok) ==
    IF "topic" \notin DOMAIN st \/ "research_approach" \notin DOMAIN st THEN <<>>
    ELSE <<Call("create_podcast", "generate", script_resp.k # "error")>> \o
         (IF script_resp.k = "text"
          THEN <<Call("create_podcast", "tts", tts_resp.k # "error")>> ELSE <<>>) \o
         (IF script_resp.k = "text" /\ tts_resp.k = "audio" /\ gcs_bucket_name
          THEN <<Call("create_podcast", "upload", upload_ok)>> ELSE <<>>)

----------------------------------------------------------------------------
(* Graph execution: StateGraph(ResearchState, input=ResearchStateInput,    *)
(* output=ResearchStateOutput) compiled and invoked.                       *)

\* the update merged into the state: a key-wise overwrite of the channels
\* the state schema declares; a key that is no channel is not kept
\* mutant: every key of an update is written, declared or not
Merge_KeepsAllKeys(st, update) ==
    [f \in DOMAIN st \cup DOMAIN update |-> IF f \in DOMAIN update THEN update[f] ELSE st[f]]

Merge(st, update) ==
    LET keys == DOMAIN update \cap ResearchState
    IN  [f \in DOMAIN st \cup keys |-> IF f \in keys THEN update[f] ELSE st[f]]

\* the conditional edges leaving a node
CondEdgesFrom(node) == {ce \in CondEdges : ce.src = node}

\* the nodes the edges out of `node` lead to, with the state st
Targets(node, st) ==
    {e[2] : e \in {e \in Edges : e[1] = node}} \cup
    {ce.map[Router(ce.router, st)] : ce \in CondEdgesFrom(node)}

\* a router returned a label its conditional edge does not map
LabelMissing(node, st) ==
    \E ce \in CondEdgesFrom(node) : Router(ce.router, st) \notin DOMAIN ce.map

\* mutant: the run returns its whole state
Output_WholeState(st) == st

\* the output mapping of a run: the output channels that hold a value
Output(st) == [f \in DOMAIN st \cap ResearchStateOutput |-> st[f]]

\* leave `node` with the state st: resolve its edges and schedule the targets
Advance(node, st) ==
    IF LabelMissing(node, st)
    THEN /\ state' = st
         /\ active' = {}
         /\ status' = "aborted"
         /\ err' = "RouterLabelError"
         /\ route' = route
    ELSE LET next == ((active \ {node}) \cup Targets(node, st)) \ {END}
         IN  /\ state' = st
             /\ active' = next
             /\ status' = IF next = {} THEN "done" ELSE "running"
             /\ err' = err
             /\ route' = route \o [i \in 1..Cardinality(CondEdgesFrom(node)) |->
                             Router((CHOOSE ce \in CondEdgesFrom(node) : TRUE).router, st)]

\* run `node`, whose function gave `out`: merge and advance, or abort
Invoke(node, out) ==
    /\ status = "running"
    /\ node \in active
    /\ trace' = Append(trace, node)
    /\ prev_state' = state
    /\ last_update' = out.update
    /\ IF out.err # "none"
       THEN /\ state' = state
            /\ active' = {}
            /\ status' = "aborted"
            /\ err' = out.err
            /\ route' = route
       ELSE Advance(node, Merge(state, out.update))
    /\ UNCHANGED <<input, env, http_vars, conc_vars, parse_vars>>

----------------------------------------------------------------------------
(* Inputs and initial state.                                               *)

Absent == [k |-> "absent"]

\* run_research has not answered
NoResponse == [status |-> 0]

\* no response object is being parsed
NoMock == [k |-> "none"]
NotParsed == <<>>

Topics == {Str(<<"T1">>)}

InputChoices ==
    [topic : Topics,
     research_approach : {Absent, TOPIC_ONLY, TOPIC_COMPANY_LEADS},
     company_name : {Absent, Str(<<>>), Str(<<"X">>)},
     title_areas : {Absent, List(<<>>), List(<<"Y">>)},
     video_url : {Absent, None, Str(<<>>), Str(<<"http://v">>)},
     create_podcast : {Absent, Bool(FALSE), Bool(TRUE)}]

\* the mapping holding the fields the caller supplied
MakeInput(c) == [f \in {g \in ResearchStateInput : c[g] # Absent} |-> c[f]]

Environments == [GCS_BUCKET_NAME : BOOLEAN, CSE : BOOLEAN]

Init ==
    /\ input \in {MakeInput(c) : c \in InputChoices}
    /\ env \in Environments
    /\ state = input
    /\ active = {START}
    /\ status = "running"
    /\ err = "none"
    /\ trace = <<>>
    /\ route = <<>>
    /\ prev_state = input
    /\ last_update = <<>>
    /\ calls = <<>>
    /\ research_app = TRUE
    /\ response = NoResponse
    /\ background_tasks = <<>>
    /\ runs = <<>>
    /\ files = <<>>
    /\ blobs = <<>>
    /\ mock_response = NoMock
    /\ parsed = NotParsed

----------------------------------------------------------------------------
(* Actions: the entry routing and one action per node.                     *)

Start ==
    /\ status = "running"
    /\ START \in active
    /\ Advance(START, state)
    /\ UNCHANGED <<input, env, trace, prev_state, last_update, calls, http_vars, conc_vars,
                   parse_vars>>

SearchResearch ==
    \E resp \in SearchResponses :
        /\ Invoke("search_research", search_research_node(state, resp))
        /\ calls' = calls \o search_research_calls(state, resp)

CompanyTopicResearch ==
    \E resp \in CompanyResponses :
        /\ Invoke("company_topic_research", company_topic_research_node(state, resp))
        /\ calls' = calls \o company_topic_research_calls(state, resp)

IdentifyLeads ==
    \E resp \in LeadResponses :
        /\ Invoke("identify_leads", identify_leads_node(state, resp))
        /\ calls' = calls \o identify_leads_calls(state, resp)

SearchLinkedinViaCse ==
    \E resp \in CseResponses :
        /\ Invoke("search_linkedin_via_cse",
                  search_linkedin_via_cse_node(state, env.CSE,
                                               fetch_linkedin_contacts_via_cse(resp)))
        /\ calls' = calls \o search_linkedin_via_cse_calls(state, env.CSE, resp)

AnalyzeVideo ==
    \E resp \in TextResponses :
        /\ Invoke("analyze_video", analyze_video_node(state, resp))
        /\ calls' = calls \o analyze_video_calls(state, resp)

CreateReport ==
    \E resp \in TextResponses, upload_ok \in BOOLEAN :
        /\ Invoke("create_report",
                  create_report_node(state, resp, env.GCS_BUCKET_NAME, upload_ok))
        /\ calls' = calls \o create_report_calls(state, resp, env.GCS_BUCKET_NAME, upload_ok)

CreatePodcast ==
    \E script_resp \in TextResponses, tts_resp \in AudioResponses, upload_ok \in BOOLEAN :
        /\ Invoke("create_podcast",
                  create_podcast_node(state, script_resp, tts_resp,
                                      env.GCS_BUCKET_NAME, upload_ok))
        /\ calls' = calls \o create_podcast_calls(state, script_resp, tts_resp,
                                                  env.GCS_BUCKET_NAME, upload_ok)

Next ==
    \/ Start
    \/ SearchResearch
    \/ CompanyTopicResearch
    \/ IdentifyLeads
    \/ SearchLinkedinViaCse
    \/ AnalyzeVideo
    \/ CreateReport
    \/ CreatePodcast

Spec == Init /\ [][Next]_vars

----------------------------------------------------------------------------
(* The HTTP entry point (src/src/main.py): run_research builds the agent   *)
(* input from the request, invokes the compiled graph and answers.         *)

HttpUrls == {Str(<<"http://v">>)}

\* ResearchRequest: topic, video_url (optional), create_podcast
Requests == [topic : Topics, video_url : {None} \cup HttpUrls, create_podcast : BOOLEAN]

\* agent_input of run_research
AgentInput(request) ==
    [topic |-> request.topic,
     video_url |-> IF Truthy(request.video_url) THEN request.video_url ELSE None,
     create_podcast |-> Bool(request.create_podcast)]

\* the task handed to background_tasks.add_task
EmailTask(topic, report_url, podcast_url) ==
    [task |-> "send_research_email_background", topic |-> topic,
     report_url |-> report_url, podcast_url |-> podcast_url]

\* mutant: on an error the handler answers with what the state holds so far
run_research_PartialOnError(run_status, run_err, st, topic) ==
    [response |-> [status |-> IF run_status = "done" THEN 200 ELSE 500,
                   report_url |-> Get(st, "report"),
                   podcast_url |-> Get(st, "podcast_url"),
                   synthesis_text |-> Get(st, "synthesis_text")],
     tasks |-> <<EmailTask(topic, Get(st, "report"), Get(st, "podcast_url"))>>]

\* what run_research does once research_app.invoke returned or raised:
\* the response it gives and the background tasks it adds
run_research(run_status, run_err, st, topic) ==
    IF run_status = "done"
    THEN LET result == Output(st)
             report_url == Get(result, "report")
             podcast_url == Get(result, "podcast_url")
             synthesis_text == Get(result, "synthesis_text")
         IN  [response |-> [status |-> 200,
                            report_url |-> report_url,
                            podcast_url |-> podcast_url,
                            synthesis_text |-> synthesis_text],
              tasks |-> <<EmailTask(topic, report_url, podcast_url)>>]
    ELSE [response |-> [status |-> 500, detail |-> run_err], tasks |-> <<>>]

HttpInit ==
    /\ research_app \in BOOLEAN
    /\ input \in {AgentInput(request) : request \in Requests}
    /\ env \in Environments
    /\ state = input
    /\ active = IF research_app THEN {START} ELSE {}
    /\ status = IF research_app THEN "running" ELSE "not_started"
    /\ err = "none"
    /\ trace = <<>>
    /\ route = <<>>
    /\ prev_state = input
    /\ last_update = <<>>
    /\ calls = <<>>
    /\ response = NoResponse
    /\ background_tasks = <<>>
    /\ runs = <<>>
    /\ files = <<>>
    /\ blobs = <<>>
    /\ mock_response = NoMock
    /\ parsed = NotParsed

\* if not research_app: raise HTTPException(status_code=503, ...)
Unavailable ==
    /\ ~research_app
    /\ response = NoResponse
    /\ response' = [status |-> 503]
    /\ UNCHANGED <<input, env, state, active, status, err, trace, route, prev_state,
                   last_update, calls, research_app, background_tasks, conc_vars,
                   parse_vars>>

\* research_app.invoke: the compiled graph runs the node it scheduled
GraphStep ==
    \E n \in active \ {START} :
        CASE n = "search_research" -> SearchResearch
          [] n = "company_topic_research" -> CompanyTopicResearch
          [] n = "identify_leads" -> IdentifyLeads
          [] n = "search_linkedin_via_cse" -> SearchLinkedinViaCse
          [] n = "analyze_video" -> AnalyzeVideo
          [] n = "create_report" -> CreateReport
          [] n = "create_podcast" -> CreatePodcast

\* invoke returned (the try block goes on) or raised (the except block)
Respond ==
    /\ research_app
    /\ status \in {"done", "aborted"}
    /\ response = NoResponse
    /\ LET r == run_research(status, err, state, input["topic"])
       IN  /\ response' = r.response
           /\ background_tasks' = background_tasks \o r.tasks
    /\ UNCHANGED <<input, env, state, active, status, err, trace, route, prev_state,
                   last_update, calls, research_app, conc_vars, parse_vars>>

HttpNext ==
    \/ Unavailable
    \/ Start
    \/ GraphStep
    \/ Respond

HttpSpec == HttpInit /\ [][HttpNext]_vars

----------------------------------------------------------------------------
(* Concurrent runs: the one compiled graph (research_app) invoked by two   *)
(* callers at once.  Each invocation has its own state mapping; the        *)
(* working directory and the storage bucket are shared.  The podcast step  *)
(* is taken in the three parts in which it touches them: it writes the     *)
(* wave file, uploads the file, and signs the URL and removes the file.    *)

RunIds == {1, 2}

\* topics of concurrent runs; "/" is a character the file names drop
ConcTopics == {Str(<<"T1">>), Str(<<"T1", "/">>), Str(<<"T2">>)}

\* what the collaborators produce for run r
RunTag(r) == IF r = 1 THEN "r1" ELSE "r2"
RunSearchResponses(r) ==
    {[k |-> "error"], [k |-> "text", text |-> <<RunTag(r)>>, sources |-> <<RunTag(r)>>]}
RunTextResponses(r) == {[k |-> "error"], [k |-> "text", text |-> <<RunTag(r)>>]}
RunAudioResponses(r) == {[k |-> "error"], [k |-> "audio"]}

\* content written by run r
Content(r, kind) == [owner |-> r, kind |-> kind]

\* a file or blob store with `name` holding `content`
Put(store, name, content) ==
    [n \in DOMAIN store \cup {name} |-> IF n = name THEN content ELSE store[n]]

\* os.remove(name)
Remove(store, name) == [n \in DOMAIN store \ {name} |-> store[n]]

NoPodcast == [pc |-> "idle"]

\* the run after `node` gave `out`: the state merged and the next node
\* scheduled, or the run aborted
RunAfter(run, node, out) ==
    IF out.err # "none"
    THEN [run EXCEPT !.active = {}, !.status = "aborted", !.err = out.err,
                     !.trace = Append(@, node), !.podcast = NoPodcast]
    ELSE LET st == Merge(run.state, out.update)
             next == ((run.active \ {node}) \cup Targets(node, st)) \ {END}
         IN  IF LabelMissing(node, st)
             THEN [run EXCEPT !.active = {}, !.status = "aborted",
                              !.err = "RouterLabelError", !.podcast = NoPodcast]
             ELSE [run EXCEPT !.state = st, !.active = next,
                              !.status = IF next = {} THEN "done" ELSE "running",
                              !.trace = Append(@, node), !.podcast = NoPodcast]

ConcInit ==
    /\ env \in Environments
    /\ \E t1, t2 \in ConcTopics :
          /\ t1 # t2
          /\ runs = [r \in RunIds |->
                       LET in == [topic |-> IF r = 1 THEN t1 ELSE t2,
                                  research_approach |-> TOPIC_ONLY,
                                  create_podcast |-> Bool(TRUE)]
                       IN  [input |-> in, state |-> in, active |-> {START},
                            status |-> "running", err |-> "none", trace |-> <<>>,
                            podcast |-> NoPodcast]]
    /\ files = <<>>
    /\ blobs = <<>>
    /\ input = <<>>
    /\ state = <<>>
    /\ active = {}
    /\ status = "not_started"
    /\ err = "none"
    /\ trace = <<>>
    /\ route = <<>>
    /\ prev_state = <<>>
    /\ last_update = <<>>
    /\ calls = <<>>
    /\ research_app = TRUE
    /\ response = NoResponse
    /\ background_tasks = <<>>
    /\ mock_response = NoMock
    /\ parsed = NotParsed

single_vars ==
    <<input, env, state, active, status, err, trace, route, prev_state, last_update,
      calls, http_vars, parse_vars>>

Scheduled(r, node) == runs[r].status = "running" /\ node \in runs[r].active

ConcStart(r) ==
    /\ Scheduled(r, START)
    /\ runs' = [runs EXCEPT ![r].active = Targets(START, runs[r].state) \ {END}]
    /\ UNCHANGED <<files, blobs, single_vars>>

ConcSearchResearch(r) ==
    /\ Scheduled(r, "search_research")
    /\ \E resp \in RunSearchResponses(r) :
          runs' = [runs EXCEPT ![r] =
                      RunAfter(@, "search_research", search_research_node(@.state, resp))]
    /\ UNCHANGED <<files, blobs, single_vars>>

\* create_research_report: the synthesis call, then upload_from_string and
\* the signed URL of the blob
ConcCreateReport(r) ==
    /\ Scheduled(r, "create_report")
    /\ \E resp \in RunTextResponses(r), upload_ok \in BOOLEAN :
          LET st == runs[r].state
              out == create_report_node(st, resp, env.GCS_BUCKET_NAME, upload_ok)
          IN  /\ runs' = [runs EXCEPT ![r] = RunAfter(@, "create_report", out)]
              /\ blobs' =
                    IF out.err = "none" /\ IsSignedUrlValue(out.update["report"])
                    THEN Put(blobs, out.update["report"].blob, Content(r, "report"))
                    ELSE blobs
    /\ UNCHANGED <<files, single_vars>>

\* create_podcast_discussion, up to wave_file(filename, audio_data, ...)
ConcPodcastWrite(r) ==
    /\ Scheduled(r, "create_podcast")
    /\ runs[r].podcast.pc = "idle"
    /\ \E script_resp \in RunTextResponses(r), tts_resp \in RunAudioResponses(r) :
          LET st == runs[r].state
          IN  IF script_resp.k # "text" \/ tts_resp.k # "audio"
              THEN /\ runs' = [runs EXCEPT ![r] =
                                  RunAfter(@, "create_podcast",
                                           create_podcast_node(st, script_resp, tts_resp,
                                                               env.GCS_BUCKET_NAME, FALSE))]
                   /\ files' = files
              ELSE /\ runs' = [runs EXCEPT ![r].podcast =
                                  [pc |-> "saved", script_resp |-> script_resp,
                                   tts_resp |-> tts_resp]]
                   /\ files' = Put(files, PodcastFilename(st), Content(r, "audio"))
    /\ UNCHANGED <<blobs, single_vars>>

\* GCS_BUCKET_NAME unset: return (podcast_script, None); otherwise
\* blob.upload_from_filename(filename), which raises when the upload fails
\* or the file is gone: except Exception: return (podcast_script, None)
ConcPodcastUpload(r) ==
    /\ Scheduled(r, "create_podcast")
    /\ runs[r].podcast.pc = "saved"
    /\ \E storage_ok \in BOOLEAN :
          LET st == runs[r].state
              pod == runs[r].podcast
              filename == PodcastFilename(st)
              upload_ok == storage_ok /\ filename \in DOMAIN files
          IN  IF env.GCS_BUCKET_NAME /\ upload_ok
              THEN /\ blobs' = Put(blobs, <<"podcasts">> \o filename, files[filename])
                   /\ runs' = [runs EXCEPT ![r].podcast.pc = "uploaded"]
              ELSE /\ blobs' = blobs
                   /\ runs' = [runs EXCEPT ![r] =
                                  RunAfter(@, "create_podcast",
                                           create_podcast_node(st, pod.script_resp,
                                                               pod.tts_resp,
                                                               env.GCS_BUCKET_NAME, FALSE))]
    /\ UNCHANGED <<files, single_vars>>

\* blob.generate_signed_url(...), os.remove(filename), return
ConcPodcastFinish(r) ==
    /\ Scheduled(r, "create_podcast")
    /\ runs[r].podcast.pc = "uploaded"
    /\ LET st == runs[r].state
           pod == runs[r].podcast
       IN  /\ files' = Remove(files, PodcastFilename(st))
           /\ runs' = [runs EXCEPT ![r] =
                          RunAfter(@, "create_podcast",
                                   create_podcast_node(st, pod.script_resp, pod.tts_resp,
                                                       env.GCS_BUCKET_NAME, TRUE))]
    /\ UNCHANGED <<blobs, single_vars>>

ConcNext ==
    \E r \in RunIds :
        \/ ConcStart(r)
        \/ ConcSearchResearch(r)
        \/ ConcCreateReport(r)
        \/ ConcPodcastWrite(r)
        \/ ConcPodcastUpload(r)
        \/ ConcPodcastFinish(r)

ConcSpec == ConcInit /\ [][ConcNext]_vars

----------------------------------------------------------------------------
(* Variant B, the lead identification agent (src/src/lead_agent): response *)
(* parsing.  A text is a sequence of characters; "nl" is the newline and   *)
(* "bt" the backtick.                                                      *)

Whitespace == {"sp", "nl"}

\* str.strip()
RECURSIVE PyLStrip(_)
PyLStrip(t) == IF t # <<>> /\ Head(t) \in Whitespace THEN PyLStrip(Tail(t)) ELSE t

RECURSIVE PyRStrip(_)
PyRStrip(t) ==
    IF t # <<>> /\ t[Len(t)] \in Whitespace THEN PyRStrip(SubSeq(t, 1, Len(t) - 1)) ELSE t

PyStrip(t) == PyRStrip(PyLStrip(t))

\* t[a:b], with Python's indices from 0
Slice(t, a, b) == SubSeq(t, a + 1, b)

\* t.find(pat, start): the least index from 0, at or after start, where pat
\* occurs in t; -1 when there is none
Find(t, pat, start) ==
    LET at == {i \in start..(Len(t) - Len(pat)) : Slice(t, i, i + Len(pat)) = pat}
    IN  IF at = {} THEN -1 ELSE CHOOSE i \in at : \A j \in at : i <= j

JSON_FENCE == <<"bt", "bt", "bt", "j", "s", "o", "n">>
FENCE == <<"bt", "bt", "bt">>

\* raw_text[json_block_start + 6 : json_block_end]
FenceSkip == 6

\* JSON values
JsonObject == [k |-> "object"]
JsonNumber == [k |-> "number"]

\* the JSON documents of the model, without whitespace, and their values
JsonDocs ==
    (<<"[", "]">> :> List(<<>>)) @@
    (<<"[", "{", "}", "]">> :> List(<<JsonObject>>)) @@
    (<<"[", "{", "}", ",", "{", "}", "]">> :> List(<<JsonObject, JsonObject>>)) @@
    (<<"{", "}">> :> JsonObject) @@
    (<<"1">> :> JsonNumber)

\* json.loads(t): whitespace between the tokens is insignificant; a text that
\* is no JSON document raises JSONDecodeError
JsonLoads(t) ==
    LET tokens == SelectSeq(t, LAMBDA c : c \notin Whitespace)
    IN  IF tokens \in DOMAIN JsonDocs
        THEN [err |-> "none", value |-> JsonDocs[tokens]]
        ELSE [err |-> "JSONDecodeError", value |-> None]

\* f"Error: {msg} {text}"
ErrorText(msg, t) == [k |-> "error_text", msg |-> msg, text |-> t]

\* the loop over response.parts: the raw text gathered, or the result the
\* function-call branch returns from inside the loop
RECURSIVE ScanParts(_, _, _)
ScanParts(parts, i, raw_text) ==
    IF i > Len(parts) THEN [returned |-> FALSE, raw_text |-> raw_text]
    ELSE LET part == parts[i]
             raw == raw_text \o part.text \o <<"nl">>
             fc == part.function_call
         IN  IF fc # None /\ "leads_json" \in DOMAIN fc.args
             THEN LET leads_json == fc.args["leads_json"]
                  IN  IF leads_json.k # "str"
                      THEN [returned |-> TRUE, value |-> <<leads_json, Str(PyStrip(raw))>>]
                      ELSE LET r == JsonLoads(leads_json.s)
                           IN  IF r.err = "none"
                               THEN [returned |-> TRUE,
                                     value |-> <<r.value, Str(PyStrip(raw))>>]
                               ELSE [returned |-> TRUE,
                                     value |-> <<List(<<>>),
                                                 ErrorText("Could not parse JSON from function call.",
                                                           PyStrip(raw))>>]
             ELSE ScanParts(parts, i + 1, raw)

\* the pair (parsed JSON, raw text) the function returns
parse_gemini_json_response(gemini_response) ==
    LET scan == IF Truthy(gemini_response.parts)
                THEN ScanParts(gemini_response.parts.l, 1, <<>>)
                ELSE [returned |-> FALSE, raw_text |-> <<>>]
    IN  IF scan.returned THEN scan.value
        ELSE
        LET raw_text == scan.raw_text
            json_block_start == Find(raw_text, JSON_FENCE, 0)
            json_block_end ==
                IF json_block_start # -1
                THEN Find(raw_text, FENCE, json_block_start + FenceSkip) ELSE -1
            json_str ==
                IF json_block_end # -1
                THEN PyStrip(Slice(raw_text, json_block_start + FenceSkip, json_block_end))
                ELSE PyStrip(raw_text)
            r == JsonLoads(json_str)
        IN  IF r.err = "none" THEN <<r.value, Str(PyStrip(raw_text))>>
            ELSE <<List(<<>>), ErrorText("Could not parse JSON from response. Raw text:",
                                         PyStrip(raw_text))>>

----------------------------------------------------------------------------
(* Variant B: the response parser applied to one response object.          *)

\* the texts a response carries: empty, prose, a malformed document, the
\* JSON documents, and JSON documents inside a fenced block
DocTexts == DOMAIN JsonDocs
Malformed == <<"[", "{">>
Prose == <<"x">>

FencedText(pre, ws, doc, post) == pre \o JSON_FENCE \o ws \o doc \o ws \o FENCE \o post

FencePrefixes == {<<>>, <<"x", "nl">>}
FenceSuffixes == {<<>>, <<"nl", "x">>}
FencePaddings == {<<>>, <<"nl">>}

FencedTexts ==
    {FencedText(pre, ws, doc, post) :
        pre \in FencePrefixes, ws \in FencePaddings, doc \in DocTexts, post \in FenceSuffixes}

ResponseTexts ==
    {<<>>, Prose, Malformed, JSON_FENCE \o <<"[", "]">>} \cup DocTexts \cup FencedTexts

\* part.function_call: none, a call without leads_json, a call whose
\* leads_json is a list, a JSON string or a malformed string
FunctionCalls ==
    {None,
     [args |-> <<>>],
     [args |-> [leads_json |-> List(<<JsonObject>>)]],
     [args |-> [leads_json |-> Str(<<"[", "{", "}", "]">>)]],
     [args |-> [leads_json |-> Str(Malformed)]]}

Part(text, function_call) == [text |-> text, function_call |-> function_call]

PartsLists ==
    {None, List(<<>>)}
    \cup {List(<<Part(t, None)>>) : t \in ResponseTexts}
    \cup {List(<<Part(t, fc)>>) : t \in {<<>>, Prose}, fc \in FunctionCalls \ {None}}
    \cup {List(<<Part(Prose, None), Part(t, None)>>) : t \in DocTexts}

\* the response objects: with parts and no text attribute of interest, or
\* without parts and a text attribute
MockResponses ==
    {[parts |-> ps, text |-> None] : ps \in PartsLists}
    \cup {[parts |-> ps, text |-> Str(t)] : ps \in {None, List(<<>>)}, t \in ResponseTexts}

ParseInit ==
    /\ mock_response \in MockResponses
    /\ parsed = NotParsed
    /\ input = <<>>
    /\ env = [GCS_BUCKET_NAME |-> FALSE, CSE |-> FALSE]
    /\ state = <<>>
    /\ active = {}
    /\ status = "not_started"
    /\ err = "none"
    /\ trace = <<>>
    /\ route = <<>>
    /\ prev_state = <<>>
    /\ last_update = <<>>
    /\ calls = <<>>
    /\ research_app = TRUE
    /\ response = NoResponse
    /\ background_tasks = <<>>
    /\ runs = <<>>
    /\ files = <<>>
    /\ blobs = <<>>

\* processed, raw_text = parse_gemini_json_response(mock_response)
Parse ==
    /\ parsed = NotParsed
    /\ parsed' = parse_gemini_json_response(mock_response)
    /\ UNCHANGED <<mock_response, input, env, state, active, status, err, trace, route,
                   prev_state, last_update, calls, http_vars, conc_vars>>

ParseNext == Parse

ParseSpec == ParseInit /\ [][ParseNext]_vars

----------------------------------------------------------------------------
(* Variant B: the graph of the lead identification agent.                  *)

LeadIdentificationStateInput == {"company_name", "lead_generation_area", "titles"}
LeadIdentificationStateOutput == {"leads", "report"}
LeadIdentificationState ==
    LeadIdentificationStateInput \cup {"raw_search_results", "processed_leads"}
        \cup LeadIdentificationStateOutput

\* get_gemini_model(model_name), called with the positional arguments args
get_gemini_model(args) ==
    IF Len(args) # 1 THEN Raised("TypeError") ELSE Returned([k |-> "model"])

\* call_gemini_api(model, prompt, temperature, tools=None), called with the
\* keyword arguments kwargs; reply is what model.generate_content does
CallGeminiParams == {"model", "prompt", "temperature", "tools"}

call_gemini_api(kwargs, reply) ==
    IF ~(kwargs \subseteq CallGeminiParams) THEN Raised("TypeError")
    ELSE IF reply.k = "error" THEN Raised("CollaboratorError")
    ELSE Returned(reply.r)

\* f"Exception: {str(e)}" and f"Exception during report generation: {str(e)}"
LeadExceptionText(prefix, e) == [k |-> "exception_text", prefix |-> prefix, e |-> e]

\* identify_leads_node of the lead identification agent
lead_identify_leads_node(st, reply) ==
    IF ~(LeadIdentificationStateInput \subseteq DOMAIN st) THEN Raise("KeyError")
    ELSE
    LET gemini_model == get_gemini_model(<<"lead_search_model", "configuration">>)
    IN  IF gemini_model.err # "none" THEN Raise(gemini_model.err)
        ELSE
        LET failed(e) == Return([raw_search_results |-> LeadExceptionText("Exception:", e),
                                 processed_leads |-> List(<<>>),
                                 leads |-> List(<<>>)])
            called == call_gemini_api({"model", "prompt", "temperature",
                                       "is_json_output_expected", "tools"}, reply)
        IN  IF called.err # "none" THEN failed(called.err)
            ELSE
            LET result == parse_gemini_json_response(called.value)
                processed_leads == result[1]
                raw_response_text == result[2]
                empty == processed_leads = JsonObject \/ ~Truthy(processed_leads)
            IN  IF empty /\ raw_response_text.k = "error_text"
                THEN Return([raw_search_results |-> raw_response_text,
                             processed_leads |-> List(<<>>),
                             leads |-> List(<<>>)])
                ELSE IF processed_leads = JsonNumber THEN failed("TypeError")
                ELSE Return([raw_search_results |-> raw_response_text,
                             processed_leads |-> processed_leads,
                             leads |-> processed_leads])

\* the text create_summary_report_node reads from the response
ReportTextOf(r) ==
    IF r.text # None /\ Truthy(r.text) THEN r.text.s
    ELSE IF Truthy(r.parts) THEN r.parts.l[1].text
    ELSE <<>>

create_summary_report_node(st, reply) ==
    IF ~(LeadIdentificationStateInput \subseteq DOMAIN st) THEN Raise("KeyError")
    ELSE
    LET gemini_model == get_gemini_model(<<"report_generation_model", "configuration">>)
    IN  IF gemini_model.err # "none" THEN Raise(gemini_model.err)
        ELSE
        LET called == call_gemini_api({"model", "prompt", "temperature",
                                       "is_json_output_expected"}, reply)
        IN  IF called.err # "none"
            THEN Return([report |-> LeadExceptionText("Exception during report generation:",
                                                      called.err)])
            ELSE LET report_text == PyStrip(ReportTextOf(called.value))
                 IN  IF report_text = <<>>
                     THEN Return([report |->
                             Str(<<"Failed to generate report text from Gemini response.">>)])
                     ELSE Return([report |-> Str(report_text)])

LeadNodes == {"identify_leads", "create_summary_report"}

\* graph.add_edge
LeadTargets(node) ==
    CASE node = START -> {"identify_leads"}
      [] node = "identify_leads" -> {"create_summary_report"}
      [] node = "create_summary_report" -> {END}

LeadRun(node, st, reply) ==
    CASE node = "identify_leads" -> lead_identify_leads_node(st, reply)
      [] node = "create_summary_report" -> create_summary_report_node(st, reply)

\* a node's update written into the state: every key of the state schema
\* is a last-value channel
LeadMerge(st, update) ==
    LET keys == DOMAIN update \cap LeadIdentificationState
    IN  [f \in DOMAIN st \cup keys |-> IF f \in keys THEN update[f] ELSE st[f]]

LeadOutput(st) == [f \in DOMAIN st \cap LeadIdentificationStateOutput |-> st[f]]

\* what generate_content answers
GeminiReplies ==
    {[k |-> "error"]}
    \cup {[k |-> "response", r |-> [parts |-> List(<<Part(t, None)>>), text |-> Str(t)]] :
             t \in {<<>>, Prose, <<"[", "{", "}", "]">>}}

LeadCompanies == {Absent, Str(<<>>), Str(<<"Acme">>), Str(<<"Globex">>)}
LeadAreas == {Absent, Str(<<>>), Str(<<"Sales">>), Str(<<"Engineering">>)}
LeadTitles == {Absent, List(<<>>), List(<<Str(<<"CTO">>)>>),
               List(<<Str(<<"CTO">>), Str(<<"CFO">>)>>)}

LeadInputChoices ==
    [company_name : LeadCompanies, lead_generation_area : LeadAreas, titles : LeadTitles]

\* the mapping holding the fields the caller supplied
MakeLeadInput(c) == [f \in {g \in LeadIdentificationStateInput : c[g] # Absent} |-> c[f]]

LeadInit ==
    /\ input \in {MakeLeadInput(c) : c \in LeadInputChoices}
    /\ state = input
    /\ active = {START}
    /\ status = "running"
    /\ err = "none"
    /\ trace = <<>>
    /\ route = <<>>
    /\ prev_state = input
    /\ last_update = <<>>
    /\ calls = <<>>
    /\ env = [GCS_BUCKET_NAME |-> FALSE, CSE |-> FALSE]
    /\ research_app = TRUE
    /\ response = NoResponse
    /\ background_tasks = <<>>
    /\ runs = <<>>
    /\ files = <<>>
    /\ blobs = <<>>
    /\ mock_response = NoMock
    /\ parsed = NotParsed

LeadStart ==
    /\ status = "running"
    /\ START \in active
    /\ active' = LeadTargets(START)
    /\ UNCHANGED <<input, env, state, status, err, trace, route, prev_state, last_update,
                   calls, http_vars, conc_vars, parse_vars>>

\* one step of the executor: the scheduled node runs on the state
LeadStep ==
    /\ status = "running"
    /\ \E node \in active \cap LeadNodes, reply \in GeminiReplies :
          LET out == LeadRun(node, state, reply)
          IN  /\ trace' = Append(trace, node)
              /\ prev_state' = state
              /\ IF out.err # "none"
                 THEN /\ status' = "aborted"
                      /\ err' = out.err
                      /\ active' = {}
                      /\ last_update' = <<>>
                      /\ UNCHANGED state
                 ELSE /\ state' = LeadMerge(state, out.update)
                      /\ last_update' = out.update
                      /\ active' = LeadTargets(node) \ {END}
                      /\ status' = IF LeadTargets(node) = {END} THEN "done" ELSE "running"
                      /\ UNCHANGED err
    /\ UNCHANGED <<input, env, route, calls, http_vars, conc_vars, parse_vars>>

LeadNext == LeadStart \/ LeadStep

LeadSpec == LeadInit /\ [][LeadNext]_vars

----------------------------------------------------------------------------
(* Variant A: parse_leads_from_gemini_response on response objects, the    *)
(* text taken character by character.  A response has a text attribute     *)
(* and candidates; a candidate has a content, a content has parts.         *)

Candidate(content) == [content |-> content]
Content1(parts) == [parts |-> parts]
TextPart(text) == [text |-> text]

\* str.startswith / str.endswith with a one-character argument
StartsWith(t, c) == t # <<>> /\ Head(t) = c
EndsWith(t, c) == t # <<>> /\ t[Len(t)] = c

\* the text the function reads, or that the structure is not recognised
RawTextOf(gemini_response) ==
    IF Truthy(gemini_response.text) THEN Returned(gemini_response.text.s)
    ELSE IF Truthy(gemini_response.candidates)
    THEN LET content == gemini_response.candidates.l[1].content
         IN  IF content # None /\ Truthy(content.parts)
             THEN Returned(content.parts.l[1].text) ELSE Returned(<<>>)
    ELSE Raised("not_recognized")

\* the text handed to json.loads: the content of a complete fenced block
\* when it looks like JSON, the whole text otherwise
JsonStrOf(raw_text) ==
    LET start_index == Find(raw_text, JSON_FENCE, 0)
        after_marker == start_index + Len(JSON_FENCE)
        content_start_index ==
            IF after_marker < Len(raw_text) /\ raw_text[after_marker + 1] = "nl"
            THEN after_marker + 1 ELSE after_marker
        end_index == Find(raw_text, FENCE, content_start_index)
        json_str_candidate == PyStrip(Slice(raw_text, content_start_index, end_index))
    IN  IF start_index = -1 \/ end_index = -1 THEN raw_text
        ELSE IF \/ StartsWith(json_str_candidate, "[") /\ EndsWith(json_str_candidate, "]")
                \/ StartsWith(json_str_candidate, "{") /\ EndsWith(json_str_candidate, "}")
             THEN json_str_candidate
             ELSE raw_text

\* mutant: the parsed value is returned whatever its type
ParseLeadsFromGeminiResponse_AnyJson(gemini_response) ==
    LET raw == RawTextOf(gemini_response)
    IN  IF raw.err # "none" THEN Returned(List(<<>>))
        ELSE LET leads_data == JsonLoads(JsonStrOf(PyStrip(raw.value)))
             IN  IF leads_data.err # "none" THEN Returned(List(<<>>))
                 ELSE Returned(leads_data.value)

\* parse_leads_from_gemini_response(gemini_response): what it returns
ParseLeadsFromGeminiResponse(gemini_response) ==
    LET raw == RawTextOf(gemini_response)
    IN  IF raw.err # "none" THEN Returned(List(<<>>))
        ELSE LET leads_data == JsonLoads(JsonStrOf(PyStrip(raw.value)))
             IN  IF leads_data.err # "none" THEN Returned(List(<<>>))
                 ELSE IF leads_data.value.k = "list" THEN Returned(leads_data.value)
                 ELSE Returned(List(<<>>))

\* the responses: a direct text, a text in the first part of the first
\* candidate, and the shapes without a text
LeadsMockResponses ==
    {[text |-> Str(t), candidates |-> None] : t \in ResponseTexts}
    \cup {[text |-> None, candidates |-> List(<<Candidate(Content1(List(<<TextPart(t)>>)))>>)] :
             t \in ResponseTexts}
    \cup {[text |-> None, candidates |-> c] :
             c \in {None, List(<<>>), List(<<Candidate(None)>>),
                    List(<<Candidate(Content1(None))>>),
                    List(<<Candidate(Content1(List(<<>>)))>>)}}

LeadsParseInit ==
    /\ mock_response \in LeadsMockResponses
    /\ parsed = NotParsed
    /\ input = <<>>
    /\ env = [GCS_BUCKET_NAME |-> FALSE, CSE |-> FALSE]
    /\ state = <<>>
    /\ active = {}
    /\ status = "not_started"
    /\ err = "none"
    /\ trace = <<>>
    /\ route = <<>>
    /\ prev_state = <<>>
    /\ last_update = <<>>
    /\ calls = <<>>
    /\ research_app = TRUE
    /\ response = NoResponse
    /\ background_tasks = <<>>
    /\ runs = <<>>
    /\ files = <<>>
    /\ blobs = <<>>

\* leads = parse_leads_from_gemini_response(mock_response)
ParseLeads ==
    /\ parsed = NotParsed
    /\ parsed' = ParseLeadsFromGeminiResponse(mock_response)
    /\ UNCHANGED <<mock_response, input, env, state, active, status, err, trace, route,
                   prev_state, last_update, calls, http_vars, conc_vars>>

LeadsParseNext == ParseLeads

LeadsParseSpec == LeadsParseInit /\ [][LeadsParseNext]_vars

----------------------------------------------------------------------------
(* Variant A: fetch_linkedin_contacts_via_cse on the outcomes of the HTTP  *)
(* request, the result items taken field by field.                         *)

MaxItems == 2

ContactKeys == {"title", "link", "snippet"}

\* a result item of the search API: a mapping that holds some of its keys
ItemChoices ==
    [title : {Absent, Str(<<"a">>), Str(<<"b">>)},
     link : {Absent, Str(<<"l">>)},
     snippet : {Absent, Str(<<"s">>)},
     displayLink : {Absent, Str(<<"d">>)}]

MakeItem(c) == [f \in {g \in DOMAIN c : c[g] # Absent} |-> c[f]]

Items == {MakeItem(c) : c \in ItemChoices}

\* the decoded body: a mapping with or without the key items
SearchResults ==
    {[error |-> Str(<<"bad request">>)]}
    \cup {[items |-> l] : l \in SeqsUpTo(Items, MaxItems)}

HttpStatuses == {200, 404, 500}

\* requests.get raises, or it returns a response with a status code and a
\* body that response.json() decodes or not
HttpOutcomes ==
    {[k |-> "request_exception"]}
    \cup {[k |-> "response", status_code |-> c, body |-> [k |-> "undecodable"]] :
             c \in HttpStatuses}
    \cup {[k |-> "response", status_code |-> c, body |-> [k |-> "json", json |-> j]] :
             c \in HttpStatuses, j \in SearchResults}

\* item.get(key, "N/A")
ItemGet(item, key) == IF key \in DOMAIN item THEN item[key] ELSE Str(<<"N/A">>)

\* mutant: the items are returned as they came
FetchLinkedinContactsViaCse_RawItems(http) ==
    IF http.k = "request_exception" THEN Returned(<<>>)
    ELSE IF http.status_code >= 400 THEN Returned(<<>>)
    ELSE IF http.body.k = "undecodable" THEN Returned(<<>>)
    ELSE LET search_results == http.body.json
         IN  Returned(IF "items" \in DOMAIN search_results
                      THEN search_results["items"] ELSE <<>>)

\* fetch_linkedin_contacts_via_cse(query, api_key, cse_id): contacts_found
\* for an outcome of the request
FetchLinkedinContactsViaCse(http) ==
    IF http.k = "request_exception" THEN Returned(<<>>)
    ELSE IF http.status_code >= 400 THEN Returned(<<>>)
    ELSE IF http.body.k = "undecodable" THEN Returned(<<>>)
    ELSE LET search_results == http.body.json
             items == IF "items" \in DOMAIN search_results
                      THEN search_results["items"] ELSE <<>>
         IN  Returned([i \in 1..Len(items) |->
                          [title |-> ItemGet(items[i], "title"),
                           link |-> ItemGet(items[i], "link"),
                           snippet |-> ItemGet(items[i], "snippet")]])

CseInit ==
    /\ mock_response \in HttpOutcomes
    /\ parsed = NotParsed
    /\ input = <<>>
    /\ env = [GCS_BUCKET_NAME |-> FALSE, CSE |-> TRUE]
    /\ state = <<>>
    /\ active = {}
    /\ status = "not_started"
    /\ err = "none"
    /\ trace = <<>>
    /\ route = <<>>
    /\ prev_state = <<>>
    /\ last_update = <<>>
    /\ calls = <<>>
    /\ research_app = TRUE
    /\ response = NoResponse
    /\ background_tasks = <<>>
    /\ runs = <<>>
    /\ files = <<>>
    /\ blobs = <<>>

\* contacts = fetch_linkedin_contacts_via_cse(query, api_key, cse_id)
FetchContacts ==
    /\ parsed = NotParsed
    /\ parsed' = FetchLinkedinContactsViaCse(mock_response)
    /\ UNCHANGED <<mock_response, input, env, state, active, status, err, trace, route,
                   prev_state, last_update, calls, http_vars, conc_vars>>

CseNext == FetchContacts

CseSpec == CseInit /\ [][CseNext]_vars

----------------------------------------------------------------------------
(* Variant A: the split of the company research text at the section        *)
(* marker, character by character.  "Idot" is the capital letter I with a  *)
(* dot above (U+0130); str.lower() turns it into two characters, "i" and   *)
(* the combining dot "dot".                                                *)

MaxSplitLen == 2

\* company_info_marker = "General Company Information:"
COMPANY_INFO_MARKER ==
    <<"G", "e", "n", "e", "r", "a", "l", "sp", "C", "o", "m", "p", "a",
      "n", "y", "sp", "I", "n", "f", "o", "r", "m", "a", "t", "i",
      "o", "n", ":">>

\* str.lower() of one character
LowerChar(c) ==
    CASE c = "G" -> <<"g">>
      [] c = "C" -> <<"c">>
      [] c = "I" -> <<"i">>
      [] c = "Idot" -> <<"i", "dot">>
      [] OTHER -> <<c>>

\* str.lower()
RECURSIVE PyLower(_)
PyLower(t) == IF t = <<>> THEN <<>> ELSE LowerChar(Head(t)) \o PyLower(Tail(t))

\* t[:b] and t[a:], with Python's indices from 0
SliceTo(t, b) == SubSeq(t, 1, IF b > Len(t) THEN Len(t) ELSE b)
SliceFrom(t, a) == IF a >= Len(t) THEN <<>> ELSE SubSeq(t, a + 1, Len(t))

\* the update company_topic_research_node returns for the generated text
CompanyTopicResearchSplit(full_research_text) ==
    LET marker_idx == Find(PyLower(full_research_text), PyLower(COMPANY_INFO_MARKER), 0)
    IN  IF marker_idx # -1
        THEN [company_specific_topic_research_text |->
                  Str(PyStrip(SliceTo(full_research_text, marker_idx))),
              company_info_text |->
                  Str(PyStrip(SliceFrom(full_research_text,
                                        marker_idx + Len(COMPANY_INFO_MARKER))))]
        ELSE [company_specific_topic_research_text |-> Str(full_research_text),
              company_info_text |-> Str(<<>>)]

\* the generated texts: a first section, the marker as the prompt writes
\* it, in lower case, or no marker, and a second section
SectionsBefore == SeqsUpTo({"a", "sp", "Idot"}, MaxSplitLen)
SectionsAfter == SeqsUpTo({"b", "nl"}, MaxSplitLen)
MarkerForms == {COMPANY_INFO_MARKER, PyLower(COMPANY_INFO_MARKER), <<>>}

ResearchText(before, form, after) == before \o form \o after

SplitInit ==
    /\ \E before \in SectionsBefore, form \in MarkerForms, after \in SectionsAfter :
          mock_response = [k |-> "text", before |-> before, form |-> form, after |-> after,
                           text |-> ResearchText(before, form, after)]
    /\ parsed = NotParsed
    /\ input = <<>>
    /\ env = [GCS_BUCKET_NAME |-> FALSE, CSE |-> FALSE]
    /\ state = <<>>
    /\ active = {}
    /\ status = "not_started"
    /\ err = "none"
    /\ trace = <<>>
    /\ route = <<>>
    /\ prev_state = <<>>
    /\ last_update = <<>>
    /\ calls = <<>>
    /\ research_app = TRUE
    /\ response = NoResponse
    /\ background_tasks = <<>>
    /\ runs = <<>>
    /\ files = <<>>
    /\ blobs = <<>>

\* company_topic_research_node from full_research_text to its return
SplitText ==
    /\ parsed = NotParsed
    /\ parsed' = CompanyTopicResearchSplit(mock_response.text)
    /\ UNCHANGED <<mock_response, input, env, state, active, status, err, trace, route,
                   prev_state, last_update, calls, http_vars, conc_vars>>

SplitNext == SplitText

SplitSpec == SplitInit /\ [][SplitNext]_vars

----------------------------------------------------------------------------
(* Vocabulary of the properties.                                           *)

Executed(n) == \E i \in 1..Len(trace) : trace[i] = n
Count(n) == Cardinality({i \in 1..Len(trace) : trace[i] = n})
Pos(n) == CHOOSE i \in 1..Len(trace) : trace[i] = n
Before(a, b) == \A i, j \in 1..Len(trace) : trace[i] = a /\ trace[j] = b => i < j
IsPrefix(s, t) == Len(s) <= Len(t) /\ \A i \in 1..Len(s) : s[i] = t[i]

\* the field is present in the mapping and holds a non-empty string / list
NonEmptyStr(st, f) == f \in DOMAIN st /\ st[f].k = "str" /\ Len(st[f].s) > 0
NonEmptyList(st, f) == f \in DOMAIN st /\ st[f].k = "list" /\ Len(st[f].l) > 0
IsTrue(st, f) == f \in DOMAIN st /\ st[f].k = "bool" /\ st[f].b = TRUE

CompanyMode(st) ==
    "research_approach" \in DOMAIN st /\ st["research_approach"] = Str(<<"Topic Company Leads">>)
TopicOnlyMode(st) ==
    "research_approach" \in DOMAIN st /\ st["research_approach"] = Str(<<"Topic Only">>)

ResearchNodes == {"search_research", "company_topic_research", "identify_leads",
                  "search_linkedin_via_cse"}
CompanyPath == <<"company_topic_research", "identify_leads", "search_linkedin_via_cse">>

\* the last node of a research branch has run and returned
ResearchFinished ==
    \E i \in 1..Len(trace) :
        /\ trace[i] \in {"search_research", "search_linkedin_via_cse"}
        /\ (i < Len(trace) \/ status # "aborted")

\* the node invoked last raised
LastRaised == status = "aborted" /\ err # "RouterLabelError"

----------------------------------------------------------------------------
(* C1: the approach router returns company_leads_path exactly when         *)
(* research_approach is "Topic Company Leads" and company_name and         *)
(* title_areas are both present and non-empty; in every other case it      *)
(* returns topic_only_path; evaluating it never aborts the run.            *)

ExpectedApproachLabel(st) ==
    IF CompanyMode(st) /\ NonEmptyStr(st, "company_name") /\ NonEmptyList(st, "title_areas")
    THEN "company_leads_path" ELSE "topic_only_path"

C1_ApproachRouter ==
    /\ should_perform_company_research(state) = ExpectedApproachLabel(state)
    /\ route # <<>> => route[1] = ExpectedApproachLabel(input)
    /\ (START \notin active /\ trace = <<>>) => status = "running"

\* company mode was chosen without title_areas and the router fell back
C1_Witness ==
    /\ route # <<>> /\ route[1] = "topic_only_path"
    /\ CompanyMode(input) /\ NonEmptyStr(input, "company_name")
    /\ ~NonEmptyList(input, "title_areas")

----------------------------------------------------------------------------
(* C2 as stated: in every run, analyze_video executes if and only if the   *)
(* input video_url is present and non-empty; it runs exactly once, after   *)
(* the research branch and immediately before create_report; without a     *)
(* video_url the run goes from the research branch to create_report.       *)

VideoGiven == NonEmptyStr(input, "video_url")

C2_Original ==
    status # "running" =>
        /\ Executed("analyze_video") <=> VideoGiven
        /\ Executed("analyze_video") =>
              /\ Count("analyze_video") = 1
              /\ Pos("analyze_video") > 1
              /\ trace[Pos("analyze_video") - 1] \in ResearchNodes
              /\ Pos("analyze_video") < Len(trace)
              /\ trace[Pos("analyze_video") + 1] = "create_report"

(* C2 amended: analyze_video executes only if video_url is non-empty, and  *)
(* in every run whose research branch finished without raising it executes *)
(* if and only if video_url is non-empty; it runs exactly once, directly   *)
(* after the last research step, and the step after it, if the run gets    *)
(* that far, is create_report; without a video_url the step after the      *)
(* research branch is create_report.                                       *)

C2_VideoGate ==
    /\ Executed("analyze_video") => VideoGiven /\ ResearchFinished
    /\ ResearchFinished =>
          LET i == CHOOSE i \in 1..Len(trace) :
                      trace[i] \in {"search_research", "search_linkedin_via_cse"}
              gate == IF VideoGiven THEN "analyze_video" ELSE "create_report"
          IN  IF i = Len(trace) THEN active = {gate} ELSE trace[i + 1] = gate
    /\ Executed("analyze_video") =>
          /\ Count("analyze_video") = 1
          /\ Pos("analyze_video") > 1
          /\ trace[Pos("analyze_video") - 1] \in {"search_research", "search_linkedin_via_cse"}
          /\ IF Pos("analyze_video") = Len(trace)
             THEN LastRaised \/ active = {"create_report"}
             ELSE trace[Pos("analyze_video") + 1] = "create_report"

\* a run with a video went on from analyze_video to create_report
C2_Witness ==
    /\ VideoGiven /\ Executed("analyze_video") /\ Executed("create_report")
    /\ status = "done"

----------------------------------------------------------------------------
(* C3: in every run that reaches the terminal, create_podcast executes if  *)
(* and only if the create_podcast flag of the state is true; when it       *)
(* executes it is the last step and directly follows create_report; when   *)
(* the flag is false or absent the run ends directly after create_report.  *)

C3_PodcastGate ==
    status = "done" =>
        /\ Executed("create_podcast") <=> IsTrue(state, "create_podcast")
        /\ Executed("create_podcast") =>
              /\ Count("create_podcast") = 1
              /\ trace[Len(trace)] = "create_podcast"
              /\ Len(trace) > 1 /\ trace[Len(trace) - 1] = "create_report"
        /\ ~IsTrue(state, "create_podcast") => trace[Len(trace)] = "create_report"

\* both outcomes of the gate: this one is a finished run with a podcast
C3_Witness ==
    status = "done" /\ Executed("create_podcast") /\ IsTrue(input, "create_podcast")

----------------------------------------------------------------------------
(* C4: in every run that reaches the terminal, create_report executes      *)
(* exactly once, after every research step of the chosen branch and after  *)
(* analyze_video if it ran, and before create_podcast if it runs; on the   *)
(* company branch the steps run in the order company_topic_research,       *)
(* identify_leads, search_linkedin_via_cse.                                *)

C4_ReportOrder ==
    /\ status = "done" =>
          /\ Count("create_report") = 1
          /\ \A n \in ResearchNodes \cup {"analyze_video"} : Before(n, "create_report")
          /\ Before("create_report", "create_podcast")
          /\ \E n \in ResearchNodes : Executed(n)
          /\ Executed("company_topic_research") => IsPrefix(CompanyPath, trace)
    /\ (\E n \in {"company_topic_research", "identify_leads", "search_linkedin_via_cse"} :
            Executed(n))
          => \/ IsPrefix(trace, CompanyPath)
             \/ IsPrefix(CompanyPath, trace)

\* a finished run of the company branch with video and podcast
C4_Witness ==
    /\ status = "done"
    /\ Executed("search_linkedin_via_cse") /\ Executed("analyze_video")
    /\ Executed("create_podcast")

----------------------------------------------------------------------------
(* C5: every run, whatever the input and whatever the collaborators        *)
(* return, reaches the terminal or aborts after a bounded number of step   *)
(* invocations: no step is executed twice, at most six steps execute, a    *)
(* run that has not ended always has a step to take, and every step moves  *)
(* the run strictly closer to its end.                                     *)

Ended == status \in {"done", "aborted"}

NoStepTwice == \A i, j \in 1..Len(trace) : trace[i] = trace[j] => i = j

\* steps still possible: the entry routing, then at most as many node
\* invocations as there are nodes
Remaining == 2 * (Cardinality(Nodes) - Len(trace)) + (IF START \in active THEN 1 ELSE 0)

FairSpec == Spec /\ WF_vars(Next)

C5_Terminates ==
    /\ [](/\ NoStepTwice
          /\ Len(trace) <= 6
          /\ Ended <=> active = {}
          /\ Ended \/ ENABLED Next)
    /\ [][Remaining' < Remaining /\ Remaining' >= 0]_vars
    /\ <>[]Ended

\* the longest run: six steps, ended at the terminal
C5_Witness == status = "done" /\ Len(trace) = 6

----------------------------------------------------------------------------
(* C6: at most one step is scheduled at any time, and the two research     *)
(* branches exclude each other: no run executes search_research together   *)
(* with a step of the company branch, and the branch is chosen once, by    *)
(* the first label the approach router returns.                            *)

CompanyNodes == {"company_topic_research", "identify_leads", "search_linkedin_via_cse"}
ApproachLabels == {"topic_only_path", "company_leads_path"}

C6_OneBranch ==
    /\ Cardinality(active) <= 1
    /\ status = "running" => Cardinality(active) = 1
    /\ ~(Executed("search_research") /\ \E n \in CompanyNodes : Executed(n))
    /\ Cardinality({i \in 1..Len(route) : route[i] \in ApproachLabels}) <= 1
    /\ route # <<>> => route[1] \in ApproachLabels
    /\ Executed("search_research") => route[1] = "topic_only_path"
    /\ (\E n \in CompanyNodes : Executed(n)) => route[1] = "company_leads_path"
    /\ (trace # <<>> /\ route[1] = "topic_only_path") => trace[1] = "search_research"
    /\ (trace # <<>> /\ route[1] = "company_leads_path") => trace[1] = "company_topic_research"

\* a finished run of the company branch
C6_Witness ==
    status = "done" /\ route[1] = "company_leads_path" /\ Executed("search_linkedin_via_cse")

----------------------------------------------------------------------------
(* C7 as stated: a run with research_approach "Topic Only", no video_url   *)
(* and create_podcast false executes exactly search_research, create_report *)
(* and reaches the terminal; its output holds a report and neither         *)
(* podcast_script nor podcast_url.                                         *)

Scenario1 ==
    /\ TopicOnlyMode(input)
    /\ ~NonEmptyStr(input, "video_url")
    /\ "create_podcast" \in DOMAIN input /\ input["create_podcast"] = Bool(FALSE)

Scenario1Path == <<"search_research", "create_report">>

CollaboratorErrors == {"CollaboratorError", "IndexError"}

\* the run follows `path`: what ran is a prefix of it, the next step of it
\* is the one scheduled, and only a failed collaborator call cuts it short
Follows(path) ==
    /\ IsPrefix(trace, path)
    /\ status = "running" =>
          \/ active = {START} /\ trace = <<>>
          \/ Len(trace) < Len(path) /\ active = {path[Len(trace) + 1]}
    /\ status = "done" => trace = path
    /\ status = "aborted" => err \in CollaboratorErrors

----------------------------------------------------------------------------
(* C8 as stated: a run with research_approach "Topic Company Leads",       *)
(* non-empty company_name, title_areas and video_url and create_podcast    *)
(* true executes exactly company_topic_research, identify_leads,           *)
(* search_linkedin_via_cse, analyze_video, create_report, create_podcast   *)
(* and reaches the terminal; its output holds report, podcast_script,      *)
(* podcast_url and identified_leads.                                       *)

Scenario2 ==
    /\ CompanyMode(input)
    /\ NonEmptyStr(input, "company_name")
    /\ NonEmptyList(input, "title_areas")
    /\ NonEmptyStr(input, "video_url")
    /\ IsTrue(input, "create_podcast")

Scenario2Path ==
    <<"company_topic_research", "identify_leads", "search_linkedin_via_cse",
      "analyze_video", "create_report", "create_podcast">>

----------------------------------------------------------------------------
(* C9: the topology is well formed: every declared node is reachable from  *)
(* the entry, every edge leads from a declared node (or the entry) to a    *)
(* declared node or the terminal, and the label a router returns is, in    *)
(* every state a run can be in, a key of the label map of every            *)
(* conditional edge that uses the router; no run aborts on a missing       *)
(* label.                                                                  *)

\* the nodes one edge away from n, whatever the routers return
Successors(n) ==
    {e[2] : e \in {e \in Edges : e[1] = n}} \cup
    UNION {{ce.map[l] : l \in DOMAIN ce.map} : ce \in CondEdgesFrom(n)}

RECURSIVE ReachableIn(_, _)
ReachableIn(S, k) ==
    IF k = 0 THEN S ELSE ReachableIn(S \cup UNION {Successors(n) : n \in S}, k - 1)

Reachable == ReachableIn({START}, Cardinality(Nodes) + 1)

C9_WellFormed ==
    /\ Nodes \subseteq Reachable
    /\ \A e \in Edges : e[1] \in Nodes /\ e[2] \in Nodes \cup {END}
    /\ \A ce \in CondEdges :
          /\ ce.src \in Nodes \cup {START}
          /\ \A l \in DOMAIN ce.map : ce.map[l] \in Nodes \cup {END}
          /\ Router(ce.router, state) \in DOMAIN ce.map
    /\ active \subseteq Nodes \cup {START}
    /\ err # "RouterLabelError"

\* a finished run in which each of the three gates resolved a label
C9_Witness == status = "done" /\ Len(route) = 3 /\ route[3] = END

----------------------------------------------------------------------------
(* C10: merging a step's update into the state is a key-wise overwrite:    *)
(* after every step that returned, each field named in the step's update   *)
(* holds the update's value, every other field keeps the value it had      *)
(* before the step, and no field present before is absent after.           *)

StepReturned == trace # <<>> /\ ~LastRaised

C10_MergeOverwrite ==
    StepReturned =>
        /\ \A f \in DOMAIN last_update : f \in DOMAIN state /\ state[f] = last_update[f]
        /\ \A f \in DOMAIN prev_state \ DOMAIN last_update :
              f \in DOMAIN state /\ state[f] = prev_state[f]
        /\ DOMAIN prev_state \subseteq DOMAIN state

----------------------------------------------------------------------------
(* C11: every step of the graph, invoked on a state in which an input it   *)
(* requires is absent or empty, does not raise: it returns an update that  *)
(* carries a sentinel or empty marker in exactly the fields it would       *)
(* otherwise have populated, makes no collaborator call, and the run       *)
(* continues.                                                              *)

\* the inputs the code of each step reads as required
RequiredInputs(n) ==
    CASE n = "search_research" -> {"topic"}
      [] n = "company_topic_research" -> {"topic", "company_name"}
      [] n = "identify_leads" -> {"company_name", "title_areas"}
      [] n = "search_linkedin_via_cse" -> {"company_name", "title_areas"}
      [] n = "analyze_video" -> {"topic", "video_url"}
      [] n = "create_report" -> {"topic", "research_approach"}
      [] n = "create_podcast" -> {"topic", "research_approach"}

\* the fields each step populates when it has its inputs
Populates(n) ==
    CASE n = "search_research" -> {"search_text", "search_sources_text"}
      [] n = "company_topic_research" ->
             {"company_specific_topic_research_text", "company_info_text"}
      [] n = "identify_leads" -> {"identified_leads_data", "identified_leads"}
      [] n = "search_linkedin_via_cse" -> {"linkedin_cse_contacts"}
      [] n = "analyze_video" -> {"video_text"}
      [] n = "create_report" -> {"report", "synthesis_text"}
      [] n = "create_podcast" -> {"podcast_script", "podcast_url"}

IsMarker(v) == v \in {NO_VIDEO, COMPANY_REQUIRED, List(<<>>), Str(<<>>), None}

LastNode == trace[Len(trace)]

\* the collaborator calls of the step invoked last
LastCalls == SelectSeq(calls, LAMBDA c : c.node = LastNode)

\* the step invoked last found a required input absent or empty
LastMissedInput ==
    /\ trace # <<>>
    /\ \E f \in RequiredInputs(LastNode) : ~Truthy(Get(prev_state, f))

C11_SoftFailure ==
    LastMissedInput =>
        /\ ~LastRaised
        /\ status # "aborted"
        /\ DOMAIN last_update = Populates(LastNode)
        /\ \A f \in DOMAIN last_update : IsMarker(last_update[f])
        /\ LastCalls = <<>>

----------------------------------------------------------------------------
(* C12: whenever a collaborator call made by a step (generative text,      *)
(* text-to-speech, contact search or blob upload) fails, the failure is    *)
(* not absorbed by the step: the run aborts in that step with an error     *)
(* and no later step executes.                                             *)

C12_FailurePropagates ==
    \A i \in 1..Len(calls) :
        ~calls[i].ok =>
            /\ status = "aborted"
            /\ err = "CollaboratorError"
            /\ LastNode = calls[i].node
            /\ i = Len(calls)

----------------------------------------------------------------------------
(* C13: for every request handled by run_research the caller receives      *)
(* either a response built from the output of a run that reached the       *)
(* terminal, or an error: 503 when the graph was not initialised, 500 when *)
(* the run raised; when a run aborts, no value written by the steps that   *)
(* ran is returned and no e-mail task is scheduled.                        *)

Responded == response # NoResponse

C13_AllOrError ==
    /\ response.status \in {0, 200, 500, 503}
    /\ response.status = 503 <=> (Responded /\ ~research_app)
    /\ response.status = 200 =>
          /\ status = "done"
          /\ response.report_url = Get(Output(state), "report")
          /\ response.podcast_url = Get(Output(state), "podcast_url")
          /\ background_tasks =
                 <<EmailTask(input["topic"], response.report_url, response.podcast_url)>>
    /\ response.status = 500 =>
          /\ status = "aborted"
          /\ response = [status |-> 500, detail |-> err]
    /\ response.status # 200 => background_tasks = <<>>
    /\ (status \in {"done", "aborted"} /\ ~Responded) => ENABLED Respond
    /\ (~research_app /\ ~Responded) => ENABLED Unavailable
    /\ ~research_app => trace = <<>>

\* a run aborted after a step had written its results, and got a bare error
C13_Witness ==
    /\ response.status = 500
    /\ "search_text" \in DOMAIN state
    /\ Len(trace) >= 2
    /\ background_tasks = <<>>

----------------------------------------------------------------------------
(* C15: every run is started with an input mapping that holds every        *)
(* declared input field and no other; the input run_research builds does,  *)
(* so no step fails on a missing declared input field.                     *)

C15_InputComplete ==
    /\ DOMAIN input = ResearchStateInput
    /\ err # "KeyError"

----------------------------------------------------------------------------
(* C14: the output of every run is restricted to the declared output       *)
(* fields report, podcast_script, podcast_url and identified_leads: no     *)
(* internal intermediate field is ever present in it, so a caller that     *)
(* reads such a field from the output does not obtain the value the steps  *)
(* computed.                                                               *)

InternalFields ==
    {"search_text", "search_sources_text", "video_text",
     "company_specific_topic_research_text", "company_info_text",
     "identified_leads_data", "synthesis_text"}

----------------------------------------------------------------------------
(* C16: each of the two blob-upload callers, create_research_report and    *)
(* create_podcast_discussion, returns the signed URL when storage is       *)
(* configured and the upload succeeds, and when GCS_BUCKET_NAME is unset   *)
(* falls back to the raw content in place of the URL: the value in that    *)
(* position is never empty or null.                                        *)

\* the step uploaded its blob and the upload succeeded
Uploaded(n) == \E i \in 1..Len(calls) : calls[i] = Call(n, "upload", TRUE)

IsSignedUrl(v) == v.k = "signed_url"
EmptyOrNull(v) == v \in {None, Str(<<>>), List(<<>>)}

C16_UploadFallback ==
    /\ "report" \in DOMAIN state =>
          /\ Uploaded("create_report") => IsSignedUrl(state["report"])
          /\ ~env.GCS_BUCKET_NAME =>
                 /\ state["report"].k = "report_content"
                 /\ state["report"].synthesis = state["synthesis_text"]
          /\ ~EmptyOrNull(state["report"])
    /\ "podcast_url" \in DOMAIN state =>
          /\ Uploaded("create_podcast") => IsSignedUrl(state["podcast_url"])
          /\ ~env.GCS_BUCKET_NAME => ~IsSignedUrl(state["podcast_url"])
          /\ ~EmptyOrNull(state["podcast_url"])

----------------------------------------------------------------------------
(* C17: for two runs of the compiled graph executing concurrently with     *)
(* different topics, under every interleaving of their steps, the final    *)
(* state of each run holds only values derived from its own input and its  *)
(* own collaborator results: no field holds or refers to data produced by  *)
(* the other run.                                                          *)

TextFields == {"search_text", "search_sources_text", "synthesis_text", "podcast_script"}

\* the value v of run r is r's own: an input value, a text r's collaborators
\* produced, or a URL of a blob that holds what run r uploaded
OwnValue(r, f, v) ==
    CASE f \in DOMAIN runs[r].input -> v = runs[r].input[f]
      [] v.k = "str" -> \A i \in 1..Len(v.s) : v.s[i] = RunTag(r)
      [] v.k = "signed_url" -> v.blob \in DOMAIN blobs /\ blobs[v.blob].owner = r
      [] v.k = "report_content" -> v.synthesis = runs[r].state["synthesis_text"]
      [] OTHER -> v = None

C17_RunsIsolated ==
    \A r \in RunIds :
        runs[r].status = "done" =>
            \A f \in DOMAIN runs[r].state : OwnValue(r, f, runs[r].state[f])

----------------------------------------------------------------------------
(* C18: every run of the lead identification graph on an input holding     *)
(* company_name, lead_generation_area and titles executes identify_leads   *)
(* exactly once, then create_summary_report exactly once, then reaches the *)
(* terminal with an output holding leads and report; no other path exists. *)

LeadInputComplete == LeadIdentificationStateInput \subseteq DOMAIN input

C18_LinearLeadRun ==
    /\ IsPrefix(trace, <<"identify_leads", "create_summary_report">>)
    /\ (LeadInputComplete /\ trace # <<>>) => status # "aborted"
    /\ (LeadInputComplete /\ status = "done") =>
          /\ trace = <<"identify_leads", "create_summary_report">>
          /\ LeadIdentificationStateOutput \subseteq DOMAIN LeadOutput(state)

----------------------------------------------------------------------------
(* C19: parse_gemini_json_response, given a response that has no parts but *)
(* whose text attribute holds a JSON list, returns that list as its first  *)
(* result and the response's text as the raw text.                         *)

HasNoParts(r) == ~Truthy(r.parts)
HoldsJsonList(t) == t \in DocTexts /\ JsonDocs[t].k = "list"

C19_JsonInTextAttribute ==
    (/\ parsed # NotParsed
     /\ HasNoParts(mock_response)
     /\ mock_response.text # None
     /\ HoldsJsonList(mock_response.text.s))
        => parsed = <<JsonDocs[mock_response.text.s], mock_response.text>>

----------------------------------------------------------------------------
(* C20: parse_gemini_json_response, given a response whose text content is *)
(* prose surrounding a fenced json block that holds a JSON list, returns   *)
(* exactly the list inside the block (the opening marker is skipped        *)
(* completely, the content up to the closing fence is parsed) and the full *)
(* text as the raw text.                                                   *)

\* the text content of a response: the text of its parts, or its text
\* attribute when it has no parts
TextContent(r) ==
    IF HasNoParts(r) THEN (IF r.text = None THEN <<>> ELSE r.text.s)
    ELSE IF Len(r.parts.l) = 1 /\ r.parts.l[1].function_call = None
         THEN r.parts.l[1].text ELSE <<>>

C20_JsonInFencedBlock ==
    \A pre \in FencePrefixes \ {<<>>}, post \in FenceSuffixes \ {<<>>},
       ws \in FencePaddings, doc \in DocTexts :
        (/\ parsed # NotParsed
         /\ HoldsJsonList(doc)
         /\ TextContent(mock_response) = FencedText(pre, ws, doc, post))
            => parsed = <<JsonDocs[doc], Str(FencedText(pre, ws, doc, post))>>

----------------------------------------------------------------------------
(* C21: the first result of parse_gemini_json_response is always a list;   *)
(* when the response text parses as valid JSON that is not a list, the     *)
(* function returns the empty list and a raw text holding "Error: Parsed   *)
(* JSON is not in the expected list format.".                              *)

HoldsJsonNonList(t) == t \in DocTexts /\ JsonDocs[t].k # "list"

NOT_A_LIST == "Parsed JSON is not in the expected list format."

C21_AlwaysAList ==
    parsed # NotParsed =>
        /\ parsed[1].k = "list"
        /\ (HoldsJsonNonList(TextContent(mock_response)) \/
            (HasNoParts(mock_response) /\ mock_response.text # None
                /\ HoldsJsonNonList(mock_response.text.s)))
              => /\ parsed[1] = List(<<>>)
                 /\ parsed[2].k = "error_text"
                 /\ parsed[2].msg = NOT_A_LIST

----------------------------------------------------------------------------
(* C22: parse_leads_from_gemini_response never raises and always returns a *)
(* list: the parsed list when the response text (direct text, candidate    *)
(* part text, or the content of a fenced json block) is a JSON list, and   *)
(* the empty list when the text is malformed JSON, valid JSON that is not  *)
(* a list, empty, or when the response has no candidates or no parts.      *)

\* the response text, when the response carries one
HasText(r) ==
    \/ Truthy(r.text)
    \/ /\ Truthy(r.candidates)
       /\ r.candidates.l[1].content # None
       /\ Truthy(r.candidates.l[1].content.parts)

ResponseText(r) ==
    IF Truthy(r.text) THEN r.text.s ELSE r.candidates.l[1].content.parts.l[1].text

----------------------------------------------------------------------------
(* C23: fetch_linkedin_contacts_via_cse never raises: on a successful      *)
(* response it returns one entry per returned item, in order, each with    *)
(* exactly the keys title, link and snippet; on an HTTP error status, a    *)
(* request failure, an undecodable body or a response without items it     *)
(* returns the empty list.                                                 *)

CseSucceeded(http) ==
    /\ http.k = "response"
    /\ http.status_code < 400
    /\ http.body.k = "json"
    /\ "items" \in DOMAIN http.body.json

C23_CseFetchTotal ==
    parsed # NotParsed =>
        /\ parsed.err = "none"
        /\ IF CseSucceeded(mock_response)
           THEN LET items == mock_response.body.json["items"]
                    contacts == parsed.value
                IN  /\ Len(contacts) = Len(items)
                    /\ \A i \in 1..Len(items) :
                          /\ DOMAIN contacts[i] = ContactKeys
                          /\ \A key \in ContactKeys \cap DOMAIN items[i] :
                                contacts[i][key] = items[i][key]
           ELSE parsed.value = <<>>

\* two items with different titles, one of them with a key the contacts do
\* not keep, came back as two contacts in the order of the items
C23_Witness ==
    /\ parsed # NotParsed
    /\ CseSucceeded(mock_response)
    /\ Len(parsed.value) = 2
    /\ parsed.value[1].title = Str(<<"a">>)
    /\ parsed.value[2].title = Str(<<"b">>)
    /\ "displayLink" \in DOMAIN mock_response.body.json["items"][1]

----------------------------------------------------------------------------
(* C24: company_topic_research_node splits the generated text at the first *)
(* case-insensitive occurrence of the marker: the text before the marker,  *)
(* trimmed, becomes company_specific_topic_research_text and the text      *)
(* after it, trimmed, becomes company_info_text; without the marker the    *)
(* entire text becomes company_specific_topic_research_text and            *)
(* company_info_text is empty; nothing but the marker and the whitespace   *)
(* around it is lost.                                                      *)

C24_MarkerSplit ==
    parsed # NotParsed =>
        IF mock_response.form # <<>>
        THEN /\ parsed.company_specific_topic_research_text =
                    Str(PyStrip(mock_response.before))
             /\ parsed.company_info_text = Str(PyStrip(mock_response.after))
        ELSE /\ parsed.company_specific_topic_research_text = Str(mock_response.text)
             /\ parsed.company_info_text = Str(<<>>)

----------------------------------------------------------------------------
(* C25: no step writes a declared input field: in every run of Variant A,  *)
(* after any sequence of steps, topic, research_approach, company_name,    *)
(* title_areas, video_url and create_podcast have in the state the values  *)
(* the caller supplied, and no update a node returns names one of them.    *)

C25_InputsUnchanged ==
    /\ \A f \in ResearchStateInput :
          /\ f \in DOMAIN state <=> f \in DOMAIN input
          /\ f \in DOMAIN input => state[f] = input[f]
    /\ DOMAIN last_update \cap ResearchStateInput = {}

\* a run through the company branch, the video analysis, the report and
\* the podcast has ended, with all six input fields supplied
C25_Witness ==
    /\ status = "done"
    /\ DOMAIN input = ResearchStateInput
    /\ Executed("search_linkedin_via_cse")
    /\ Executed("analyze_video")
    /\ Executed("create_podcast")

----------------------------------------------------------------------------
(* C26: the router-guarded degraded branches are unreachable in graph      *)
(* runs: whenever company_topic_research, identify_leads or                *)
(* search_linkedin_via_cse executes, company_name and title_areas are      *)
(* non-empty; whenever analyze_video executes, video_url is non-empty; the *)
(* markers "Error: Company name required." and "No video provided for      *)
(* analysis." never appear in the state.                                   *)

C26_DegradedUnreachable ==
    /\ \A n \in CompanyNodes :
          Executed(n) => NonEmptyStr(state, "company_name") /\ NonEmptyList(state, "title_areas")
    /\ (trace # <<>> /\ LastNode \in CompanyNodes) =>
          NonEmptyStr(prev_state, "company_name") /\ NonEmptyList(prev_state, "title_areas")
    /\ Executed("analyze_video") => NonEmptyStr(state, "video_url")
    /\ (trace # <<>> /\ LastNode = "analyze_video") => NonEmptyStr(prev_state, "video_url")
    /\ \A f \in DOMAIN state : state[f] \notin {COMPANY_REQUIRED, NO_VIDEO}

\* the three company steps and the video analysis have run and written
\* their fields
C26_Witness ==
    /\ \A n \in CompanyNodes : Executed(n)
    /\ Executed("analyze_video")
    /\ "video_text" \in DOMAIN state
    /\ "company_info_text" \in DOMAIN state
    /\ "identified_leads_data" \in DOMAIN state

----------------------------------------------------------------------------
(* C27: in every reachable state of a run, identified_leads and            *)
(* identified_leads_data are both absent or equal to each other, and they  *)
(* are present only if the run took company_leads_path; the output field   *)
(* identified_leads is the data the report step read from                  *)
(* identified_leads_data.                                                  *)

C27_LeadsFieldsAgree ==
    /\ "identified_leads" \in DOMAIN state <=> "identified_leads_data" \in DOMAIN state
    /\ "identified_leads" \in DOMAIN state =>
          /\ state["identified_leads"] = state["identified_leads_data"]
          /\ route # <<>> /\ route[1] = "company_leads_path"
    /\ (trace # <<>> /\ LastNode = "create_report" /\ "identified_leads" \in DOMAIN state) =>
          /\ "identified_leads_data" \in DOMAIN prev_state
          /\ state["identified_leads"] = prev_state["identified_leads_data"]
    /\ (status = "done" /\ "identified_leads_data" \in DOMAIN state) =>
          /\ "identified_leads" \in DOMAIN Output(state)
          /\ Output(state)["identified_leads"] = state["identified_leads_data"]

\* a run that identified a lead has ended after the report step
C27_Witness ==
    /\ status = "done"
    /\ Executed("create_report")
    /\ NonEmptyList(state, "identified_leads")
    /\ NonEmptyList(Output(state), "identified_leads")

----------------------------------------------------------------------------
(* C28: the result of the contact search never influences what a run       *)
(* returns: for two runs that agree on the input and on every other        *)
(* collaborator result and differ in the contact-search result, report,    *)
(* podcast_script, podcast_url and identified_leads of the output are the  *)
(* same, because linkedin_cse_contacts is no field of the state or of the  *)
(* output and no later step reads it.  Stated on the step where the two    *)
(* runs part: from the same state, any two contact-search results lead to  *)
(* the same state, the same next step and the same output.                 *)

CseStepOn(resp) ==
    search_linkedin_via_cse_node(state, env.CSE, fetch_linkedin_contacts_via_cse(resp))

----------------------------------------------------------------------------
(* C29: downstream steps agree with the branch the approach router chose:  *)
(* in every run that took topic_only_path, downgraded runs included, and   *)
(* in which search_research produced a non-empty search_text, the podcast  *)
(* step passes that search_text as the research content; it uses company   *)
(* research text only in runs that took company_leads_path, and falls back *)
(* to synthesis_text only when the branch's own research text is empty.    *)

\* the research text of the branch the run took
BranchResearchText(st) ==
    IF route[1] = "company_leads_path"
    THEN PyOr(GetOr(st, "company_specific_topic_research_text", Str(<<>>)),
              GetOr(st, "company_info_text", Str(<<>>)))
    ELSE GetOr(st, "search_text", Str(<<>>))

PodcastStepRan ==
    /\ trace # <<>> /\ LastNode = "create_podcast"
    /\ {"topic", "research_approach"} \subseteq DOMAIN prev_state

C29_PodcastFollowsBranch ==
    PodcastStepRan =>
        LET used == PrimaryResearchText(prev_state)
            own == BranchResearchText(prev_state)
        IN  /\ (route[1] = "topic_only_path" /\ NonEmptyStr(prev_state, "search_text"))
                  => used = prev_state["search_text"]
            /\ Truthy(own) => used = own

----------------------------------------------------------------------------
(* C30: for two runs that create a podcast concurrently, under every       *)
(* interleaving of their write-file, upload and remove-file actions, the   *)
(* audio each run uploads and the podcast_url it returns refer to the      *)
(* audio that run generated: runs whose topic or company_name differ never *)
(* write, upload from or delete the same local file or storage object.     *)

SameNaming(r1, r2) ==
    /\ runs[r1].input["topic"] = runs[r2].input["topic"]
    /\ Get(runs[r1].input, "company_name") = Get(runs[r2].input, "company_name")

PodcastBlob(r) == <<"podcasts">> \o PodcastFilename(runs[r].state)

C30_PodcastFilesOwned ==
    \A r \in RunIds :
        (\A o \in RunIds \ {r} : ~SameNaming(r, o)) =>
            /\ runs[r].podcast.pc = "saved" =>
                  /\ PodcastFilename(runs[r].state) \in DOMAIN files
                  /\ files[PodcastFilename(runs[r].state)].owner = r
            /\ runs[r].podcast.pc = "uploaded" =>
                  /\ PodcastBlob(r) \in DOMAIN blobs
                  /\ blobs[PodcastBlob(r)].owner = r
            /\ (runs[r].status = "done" /\ "podcast_url" \in DOMAIN runs[r].state
                    /\ IsSignedUrlValue(runs[r].state["podcast_url"])) =>
                  /\ runs[r].state["podcast_url"].blob \in DOMAIN blobs
                  /\ blobs[runs[r].state["podcast_url"].blob].owner = r

====
